---- MODULE Spec2Model ----
(***************************************************************************)
(* A verification model of the example programs of python-3-scicomp-intro. *)
(* Every example is a stand-alone script, so the module holds one group of *)
(* variables and one specification per script:                             *)
(*   SpecRace     lecture_slides/src/lecture7/race.py                       *)
(*   SpecMro      examples/mro.py                                           *)
(*   SpecAnagram  examples/anagram.py                                       *)
(*   SpecWordgen  examples/wordgen.py                                       *)
(*   SpecList     examples/monads.py, examples/amb.py: the List monad       *)
(*   SpecMaybe    examples/monads.py: the Maybe monad                       *)
(*   SpecDo       examples/monads.py: the do notation                       *)
(*   SpecState    examples/monads.py: the State monad                       *)
(*   SpecReader   examples/monads.py: the Reader monad                      *)
(*   SpecLet      examples/let2.py                                          *)
(*   SpecQuicksort  examples/beyond_python/quicksort_python.py              *)
(*   SpecSieve    examples/sieve.py                                         *)
(* A specification leaves the variables of the other scripts at rest.      *)
(***************************************************************************)
EXTENDS Integers, Sequences, FiniteSets, TLC

VARIABLES
    \* ---- race.py
    x,          \* the global x
    y,          \* y[k]: the local y of thread f(k)
    pc,         \* pc[k]: where thread f(k) stands
    mainpc,     \* where the module's main loop stands
    nstarted,   \* how many threads of this round T.start() has started
    njoined,    \* how many threads of this round T.join() has returned for
    out,        \* the list out
    ver,        \* history: number of writes to x in this round
    rver,       \* history: rver[k] is ver when thread k read x
    overlap,    \* history: two threads held the same unwritten read of x
    overlapLog, \* history: overlap of each finished round, parallel to out
    \* ---- mro.py
    classes,    \* the dict classes: class name -> list of its bases
    todo,       \* keys of classes the loop "for name in classes" has yet to visit
    memo,       \* the dict memo
    mro,        \* the dict mro under construction
    mroPc,      \* "run", "returned" or "raised"
    mroResult,  \* what compute_mro returned (NoResult while it has not)
    mroStuck,   \* history: a C3 merge met heads that all occur in some tail
    \* ---- anagram.py
    anaWord,    \* the argument word of anagrams
    anaLst,     \* wordlist.lst: the lines of the word list file
    anaMin,     \* the argument min_component_length
    anaSplits,  \* the splits "for the_split in admissible_splits(...)" has yet to visit
    anaOut,     \* the list out
    anaPc,      \* "run" or "returned"
    \* ---- wordgen.py
    wgList,     \* wordlist: the lines of the input file
    wgJ,        \* how many words of wordlist the loop in main has analysed
    wgDatabase, \* the dict database
    wgExisting, \* the set existing_words
    wgPc,       \* "build", "final", "try", "advance", "check", "returned" or "raised"
    wgCalls,    \* how many calls of make_new_word main has made
    wgMaxTries, \* the argument max_tries of the call
    wgRequire,  \* the argument require_new of the call
    wgTries,    \* tries
    wgWord,     \* word
    wgState,    \* state
    wgBefore,   \* history: existing_words when the call began
    wgRejected, \* history: the words of the tries the call gave up
    wgRet,      \* (word, tries) of what make_new_word returned
    \* ---- monads.py, amb.py: List
    lsSelf,     \* the List the next operation is applied to
    lsGuarded,  \* lsSelf is List.guard(lsB)
    lsB,        \* the argument b of List.guard(b)
    lsOp,       \* "new", "guard", "bind", "nested" or "then": the operation applied last
    lsF,        \* the function bound by >>, or lambda _: f for then(f)
    lsOut,      \* what the operation returned
    lsCalls,    \* history: the arguments the bound function was called with
    \* ---- monads.py: Maybe
    mbFs,       \* the functions f_1, ..., f_n of the chain m >> f_1 >> ... >> f_n
    mbI,        \* how many of the binds have been evaluated
    mbTrace,    \* history: m, then the value of each bind evaluated so far
    mbCalls,    \* history: <<i, a>> for every call f_i(a) made so far
    \* ---- monads.py: do
    doLines,    \* the arguments lines of do, each a (name, body) with name "" for a bare body
    doJ,        \* how many lines the loop "for j, item in enumerate(lines)" has translated
    doCode,     \* allcode, as the sequence of the pieces the loop appended
    doNames,    \* names
    doBodys,    \* bodys
    doBeginOpen,\* begin_is_open
    doPc,       \* "gen", "done" or "idle"
    doResult,   \* what eval(allcode, ...) returned
    doRaised,   \* eval(allcode, ...) raised an exception
    \* ---- monads.py, State
    stChain,    \* the State object composed so far
    stN,        \* number of State objects made from user processors
    stPc,       \* "compose", "run" or "done"
    stStack,    \* the pending calls of the run, innermost first
    stA,        \* the data value returned by the last call
    stS,        \* the state value returned by the last call
    stInit,     \* the initial state the run was started from
    stLog,      \* the processor calls that have returned, in order
    \* ---- monads.py, Reader
    rdChain,    \* the Reader composed so far
    rdN,        \* number of Readers composed into it
    rdPc,       \* "compose" or "done"
    rdEnv,      \* the environment given to run
    rdResult,   \* what run returned
    rdLog,      \* the Readers that were run, with the environment each was given
    \* ---- let2.py
    ltLet,      \* the let or letrec expression that was evaluated, with its outcome
    ltHeap,     \* the environments made by the decorators, in order of creation
    ltFuns,     \* the decorated functions
    ltCalls,    \* the calls of decorated functions, with what each returned
    \* ---- quicksort_python.py
    qsHeap,     \* the list objects: qsHeap[1] is the caller's L
    qsIn,       \* the elements L had when quicksort was called
    qsTmp,      \* which list object tmp is
    qsStack,    \* the pending calls of _qsort, as (lo, hi), next first
    qsPc,       \* "call", "sort" or "done"
    qsRet,      \* which list object quicksort returned
    \* ---- sieve.py
    svPrimes,   \* what primes() has yielded
    svF,        \* the f of primes(); 0 before the first next()
    svMemo,     \* the list memo of memo_primes()
    svMemoF,    \* the f of gen(); 0 before the first next()
    svSicp,     \* what sicp_primes() has yielded
    svFilters,  \* the m of the nested remove_multiples_of generators, innermost first
    svI,        \* the i of naturals(start=2)
    svRaised    \* sicp_primes() has raised RecursionError

raceVars == <<x, y, pc, mainpc, nstarted, njoined, out, ver, rver, overlap, overlapLog>>

mroVars == <<classes, todo, memo, mro, mroPc, mroResult, mroStuck>>

anaVars == <<anaWord, anaLst, anaMin, anaSplits, anaOut, anaPc>>

wgVars ==
    <<wgList, wgJ, wgDatabase, wgExisting, wgPc, wgCalls, wgMaxTries,
      wgRequire, wgTries, wgWord, wgState, wgBefore, wgRejected, wgRet>>

lsVars == <<lsSelf, lsGuarded, lsB, lsOp, lsF, lsOut, lsCalls>>

mbVars == <<mbFs, mbI, mbTrace, mbCalls>>

doVars ==
    <<doLines, doJ, doCode, doNames, doBodys, doBeginOpen, doPc, doResult,
      doRaised>>

stVars == <<stChain, stN, stPc, stStack, stA, stS, stInit, stLog>>

rdVars == <<rdChain, rdN, rdPc, rdEnv, rdResult, rdLog>>

ltVars == <<ltLet, ltHeap, ltFuns, ltCalls>>

qsVars == <<qsHeap, qsIn, qsTmp, qsStack, qsPc, qsRet>>

svVars == <<svPrimes, svF, svMemo, svMemoF, svSicp, svFilters, svI, svRaised>>

vars == <<raceVars, mroVars, anaVars, wgVars, lsVars, mbVars, doVars, stVars, rdVars, ltVars, qsVars, svVars>>

(***************************************************************************)
(* General helpers                                                         *)
(***************************************************************************)
RECURSIVE SumTo(_)
SumTo(n) == IF n = 0 THEN 0 ELSE n + SumTo(n - 1)

(***************************************************************************)
(* race.py                                                                 *)
(***************************************************************************)
\* range(1,21) starts 20 threads; the model runs NumThreads of them.
NumThreads == 3
\* range(1000) repeats the experiment 1000 times; the model MaxRounds times.
MaxRounds == 2

Threads == 1..NumThreads

\* The value of x when no update is lost: 1 + 1 + 2 + ... + NumThreads.
RaceTotal == 1 + SumTo(NumThreads)

RaceIdle ==
    /\ x = 0
    /\ y = [k \in Threads |-> 0]
    /\ pc = [k \in Threads |-> "new"]
    /\ mainpc = "off"
    /\ nstarted = 0
    /\ njoined = 0
    /\ out = <<>>
    /\ ver = 0
    /\ rver = [k \in Threads |-> 0]
    /\ overlap = FALSE
    /\ overlapLog = <<>>

RaceInit ==
    /\ x = 0
    /\ y = [k \in Threads |-> 0]
    /\ pc = [k \in Threads |-> "new"]
    /\ mainpc = "reset"
    /\ nstarted = 0
    /\ njoined = 0
    /\ out = <<>>
    /\ ver = 0
    /\ rver = [k \in Threads |-> 0]
    /\ overlap = FALSE
    /\ overlapLog = <<>>

\* x = 1 and the construction of the 20 Thread objects
MainReset ==
    /\ mainpc = "reset"
    /\ Len(out) < MaxRounds
    /\ x' = 1
    /\ y' = [k \in Threads |-> 0]
    /\ pc' = [k \in Threads |-> "new"]
    /\ nstarted' = 0
    /\ njoined' = 0
    /\ ver' = 0
    /\ rver' = [k \in Threads |-> 0]
    /\ overlap' = FALSE
    /\ mainpc' = "start"
    /\ UNCHANGED <<out, overlapLog>>

\* for T in threads: T.start()
MainStart ==
    /\ mainpc = "start"
    /\ IF nstarted < NumThreads
          THEN /\ nstarted' = nstarted + 1
               /\ pc' = [pc EXCEPT ![nstarted + 1] = "read"]
               /\ UNCHANGED mainpc
          ELSE /\ mainpc' = "join"
               /\ UNCHANGED <<nstarted, pc>>
    /\ UNCHANGED <<x, y, njoined, out, ver, rver, overlap, overlapLog>>

\* for T in threads: T.join()   (returns once thread njoined+1 has ended)
MainJoin ==
    /\ mainpc = "join"
    /\ IF njoined < NumThreads
          THEN /\ pc[njoined + 1] = "done"
               /\ njoined' = njoined + 1
               /\ UNCHANGED mainpc
          ELSE /\ mainpc' = "append"
               /\ UNCHANGED njoined
    /\ UNCHANGED <<x, y, pc, nstarted, out, ver, rver, overlap, overlapLog>>

\* out.append(x)
MainAppend ==
    /\ mainpc = "append"
    /\ out' = Append(out, x)
    /\ overlapLog' = Append(overlapLog, overlap)
    /\ mainpc' = "reset"
    /\ UNCHANGED <<x, y, pc, nstarted, njoined, ver, rver, overlap>>

\* f(k): y = x    (then time.sleep lets the other threads run)
ThreadRead(k) ==
    /\ pc[k] = "read"
    /\ y' = [y EXCEPT ![k] = x]
    /\ rver' = [rver EXCEPT ![k] = ver]
    /\ overlap' = (overlap \/ \E j \in Threads \ {k} : pc[j] = "write" /\ rver[j] = ver)
    /\ pc' = [pc EXCEPT ![k] = "write"]
    /\ UNCHANGED <<x, mainpc, nstarted, njoined, out, ver, overlapLog>>

\* a version of f(k) that updates x in one step: x += k
WrittenValueAtomic(k) == x + k

\* the value f(k) stores: y += k
WrittenValue(k) == y[k] + k

\* f(k): y += k ; x = y
ThreadWrite(k) ==
    /\ pc[k] = "write"
    /\ x' = WrittenValue(k)
    /\ ver' = ver + 1
    /\ pc' = [pc EXCEPT ![k] = "done"]
    /\ UNCHANGED <<y, mainpc, nstarted, njoined, out, rver, overlap, overlapLog>>

(***************************************************************************)
(* mro.py                                                                  *)
(***************************************************************************)
\* The dict has the keys 1..NumClasses and lists at most MaxEdges bases in all.
NumClasses == 4
MaxEdges == 5

ClassNames == 1..NumClasses

\* compute_mro has returned nothing (yet); a returned dict d is held as <<d>>
NoResult == <<>>
\* what head() returns for an empty list: None
NoHead == 0
\* the raise of LinearizationImpossible, as the value of C3_find_good_head
RaisedHead == 0 - 1

\* head(lst)
head(lst) == IF Len(lst) > 0 THEN lst[1] ELSE NoHead

\* tail(lst)
tail(lst) == IF Len(lst) > 1 THEN SubSeq(lst, 2, Len(lst)) ELSE <<>>

\* remove_all(elt, lst)
RECURSIVE remove_all(_, _)
remove_all(elt, lst) ==
    IF lst = <<>> THEN <<>>
    ELSE IF lst[1] = elt THEN remove_all(elt, tail(lst))
    ELSE <<lst[1]>> \o remove_all(elt, tail(lst))

\* remove_all_in(elt, lists)
remove_all_in(elt, lists) == [i \in 1..Len(lists) |-> remove_all(elt, lists[i])]

\* the elements of a list, as a set
Elems(lst) == {lst[i] : i \in 1..Len(lst)}

\* [head(lst) for lst in lists if head(lst) is not None]
RECURSIVE HeadsOf(_)
HeadsOf(lists) ==
    IF lists = <<>> THEN <<>>
    ELSE (IF head(lists[1]) # NoHead THEN <<head(lists[1])>> ELSE <<>>) \o HeadsOf(tail(lists))

\* [tail(lst) for lst in lists]
TailsOf(lists) == [i \in 1..Len(lists) |-> tail(lists[i])]

\* reduce(add, tails, []), as the set of its elements
FlatTails(tails) == UNION {Elems(tails[i]) : i \in 1..Len(tails)}

\* the for/else of C3_find_good_head when no head is good, without the raise:
\* the loop variable hd is left at the last head
C3_find_good_head_NoRaise(heads, tails) ==
    LET good == {i \in 1..Len(heads) : heads[i] \notin FlatTails(tails)}
    IN  IF good = {} THEN heads[Len(heads)]
        ELSE heads[CHOOSE i \in good : \A j \in good : i <= j]

\* C3_find_good_head(heads, tails): the first head that is in no tail
C3_find_good_head(heads, tails) ==
    LET good == {i \in 1..Len(heads) : heads[i] \notin FlatTails(tails)}
    IN  IF good = {} THEN RaisedHead
        ELSE heads[CHOOSE i \in good : \A j \in good : i <= j]

\* The loop of C3_merge from a given out and lists. The result is
\* [out, raised, stuck]: stuck records that some round found every head in a tail.
RECURSIVE C3_merge_loop(_, _, _)
C3_merge_loop(outl, lists, stuck) ==
    LET heads == HeadsOf(lists)
        tails == TailsOf(lists)
    IN  IF Len(heads) = 0 THEN [out |-> outl, raised |-> FALSE, stuck |-> stuck]
        ELSE LET hd == C3_find_good_head(heads, tails)
                 nogood == \A i \in 1..Len(heads) : heads[i] \in FlatTails(tails)
             IN  IF hd = RaisedHead
                    THEN [out |-> outl, raised |-> TRUE, stuck |-> TRUE]
                    ELSE C3_merge_loop(Append(outl, hd), remove_all_in(hd, lists),
                                       stuck \/ nogood)

\* C3_merge(lists)
C3_merge(lists) == C3_merge_loop(<<>>, lists, FALSE)

\* C3_linearize(name), on the state st = [memo, seen, raised, stuck] of the
\* enclosing compute_mro; the value it returns is memo[name] of the result.
\* LinearizeBases is its loop "for baseclass_node in classes[name]" from base i on,
\* which collects the linearizations in lists.
RECURSIVE C3_linearize(_, _, _)
RECURSIVE LinearizeBases(_, _, _, _, _)
LinearizeBases(cls, name, i, lists, st) ==
    IF st.raised \/ i > Len(cls[name]) THEN [st |-> st, lists |-> lists]
    ELSE LET b == cls[name][i]
         IN  IF b \notin st.seen
                THEN LET st2 == C3_linearize(cls, b, st)
                     IN  IF st2.raised
                            THEN [st |-> st2, lists |-> lists]
                            ELSE LinearizeBases(cls, name, i + 1,
                                                Append(lists, st2.memo[b]), st2)
                ELSE LinearizeBases(cls, name, i + 1, lists, st)

C3_linearize(cls, name, st) ==
    LET st1 == [st EXCEPT !.seen = @ \cup {name}]
    IN  IF name \in DOMAIN st1.memo THEN st1
        ELSE IF name \notin DOMAIN cls \/ Len(cls[name]) = 0
                THEN [st1 EXCEPT !.memo = (name :> <<name>>) @@ @]
        ELSE LET r == LinearizeBases(cls, name, 1, <<>>, st1)
             IN  IF r.st.raised THEN r.st
                 ELSE LET m == C3_merge(Append(r.lists, cls[name]))
                      IN  IF m.raised
                             THEN [r.st EXCEPT !.raised = TRUE, !.stuck = TRUE]
                             ELSE [r.st EXCEPT
                                     !.memo = (name :> (<<name>> \o m.out)) @@ @,
                                     !.stuck = @ \/ m.stuck]

\* a base that is no key of the dict (such as a class of another module)
ForeignName == NumClasses + 1

\* The lists of n distinct bases a class numbered k may declare: classes with a
\* smaller number (so that no inheritance is cyclic) and the foreign name.
RECURSIVE BaseLists(_, _)
BaseLists(k, n) ==
    IF n = 0 THEN {<<>>}
    ELSE {Append(l, b) : l \in BaseLists(k, n - 1), b \in 1..(k - 1) \cup {ForeignName}}

DistinctBaseLists(k, n) ==
    {l \in BaseLists(k, n) : \A i, j \in 1..Len(l) : i # j => l[i] # l[j]}

\* The dicts with the keys 1..k that declare at most e bases in all, as the
\* sequence of their base lists.
RECURSIVE Hierarchies(_, _)
Hierarchies(k, e) ==
    IF k = 0 THEN {<<>>}
    ELSE UNION {{Append(h, b) : h \in Hierarchies(k - 1, e - n),
                                b \in DistinctBaseLists(k, n)} : n \in 0..e}

AsDict(h) == [k \in 1..Len(h) |-> h[k]]

EmptyDict == [k \in {} |-> <<>>]

MroIdle ==
    /\ classes = EmptyDict
    /\ todo = {}
    /\ memo = EmptyDict
    /\ mro = EmptyDict
    /\ mroPc = "off"
    /\ mroResult = NoResult
    /\ mroStuck = FALSE

\* compute_mro(classes, logger) is entered: mro = {}, memo = {}
MroInit ==
    /\ classes \in {AsDict(h) : h \in Hierarchies(NumClasses, MaxEdges)}
    /\ todo = DOMAIN classes
    /\ memo = EmptyDict
    /\ mro = EmptyDict
    /\ mroPc = "run"
    /\ mroResult = NoResult
    /\ mroStuck = FALSE

\* One round of "for name in classes": seen = set(); mro[name] = C3_linearize(name).
\* The order in which the dict lists its keys is an input: each round takes any
\* key not yet visited. A LinearizationImpossible leaves through the except clause.
MroAnalyze(name) ==
    /\ mroPc = "run"
    /\ name \in todo
    /\ LET st == C3_linearize(classes, name,
                              [memo |-> memo, seen |-> {}, raised |-> FALSE, stuck |-> FALSE])
       IN  /\ mroStuck' = (mroStuck \/ st.stuck)
           /\ IF st.raised
                 THEN /\ mroPc' = "raised"
                      /\ UNCHANGED <<memo, mro, todo>>
                 ELSE /\ memo' = st.memo
                      /\ mro' = (name :> st.memo[name]) @@ mro
                      /\ todo' = todo \ {name}
                      /\ UNCHANGED mroPc
    /\ UNCHANGED <<classes, mroResult>>

\* return mro
MroReturn ==
    /\ mroPc = "run"
    /\ todo = {}
    /\ mroPc' = "returned"
    /\ mroResult' = <<mro>>
    /\ UNCHANGED <<classes, todo, memo, mro, mroStuck>>

\* The C3 linearization of the claim, as [ok, lin]: the class, then the C3 merge
\* of the complete linearizations of all its bases, in declaration order, and of
\* the list of bases; ok is FALSE when a merge has no good head.
RECURSIVE C3Lin(_, _)
RECURSIVE C3LinBases(_, _, _)
C3LinBases(cls, bases, i) ==
    IF i > Len(bases) THEN [ok |-> TRUE, lists |-> <<>>]
    ELSE LET l == C3Lin(cls, bases[i])
             rest == C3LinBases(cls, bases, i + 1)
         IN  [ok |-> l.ok /\ rest.ok, lists |-> <<l.lin>> \o rest.lists]

C3Lin(cls, name) ==
    IF name \notin DOMAIN cls \/ Len(cls[name]) = 0 THEN [ok |-> TRUE, lin |-> <<name>>]
    ELSE LET ls == C3LinBases(cls, cls[name], 1)
             m == C3_merge(Append(ls.lists, cls[name]))
         IN  [ok |-> ls.ok /\ ~m.raised, lin |-> <<name>> \o m.out]

(***************************************************************************)
(* anagram.py                                                              *)
(***************************************************************************)
\* Letters are numbers, compared as Python compares characters.
AnaLetters == {1, 2}
\* The word to anagram and the words of the list have at most MaxAnaLen letters,
\* and the list has at most MaxAnaList lines.
MaxAnaLen == 3
MaxAnaList == 2

RECURSIVE WordsOfLen(_)
WordsOfLen(n) ==
    IF n = 0 THEN {<<>>}
    ELSE {Append(w, l) : w \in WordsOfLen(n - 1), l \in AnaLetters}

AnaWords == UNION {WordsOfLen(n) : n \in 1..MaxAnaLen}

RECURSIVE ListsOfLen(_)
ListsOfLen(n) ==
    IF n = 0 THEN {<<>>}
    ELSE {Append(l, w) : l \in ListsOfLen(n - 1), w \in AnaWords}

\* a < b for two words (str) or two tuples of numbers, as Python orders them
RECURSIVE WordLess(_, _)
WordLess(a, b) ==
    IF b = <<>> THEN FALSE
    ELSE IF a = <<>> THEN TRUE
    ELSE IF a[1] # b[1] THEN a[1] < b[1]
    ELSE WordLess(Tail(a), Tail(b))

\* a < b for two tuples of words
RECURSIVE TupleLess(_, _)
TupleLess(a, b) ==
    IF b = <<>> THEN FALSE
    ELSE IF a = <<>> THEN TRUE
    ELSE IF a[1] # b[1] THEN WordLess(a[1], b[1])
    ELSE TupleLess(Tail(a), Tail(b))

\* sorted(lst) of a list of words (a stable insertion keeps equal words)
RECURSIVE InsertWord(_, _)
InsertWord(w, sorted) ==
    IF sorted = <<>> THEN <<w>>
    ELSE IF WordLess(w, sorted[1]) THEN <<w>> \o sorted
    ELSE <<sorted[1]>> \o InsertWord(w, Tail(sorted))

RECURSIVE SortedWords(_)
SortedWords(lst) ==
    IF lst = <<>> THEN <<>> ELSE InsertWord(lst[Len(lst)], SortedWords(SubSeq(lst, 1, Len(lst) - 1)))

\* tuple(sorted(s)) of a set of words or of tuples of numbers
RECURSIVE SortedWordSet(_)
SortedWordSet(S) ==
    IF S = {} THEN <<>>
    ELSE LET m == CHOOSE a \in S : \A b \in S : ~WordLess(b, a)
         IN  <<m>> \o SortedWordSet(S \ {m})

\* tuple(sorted(s)) of a set of tuples of words
RECURSIVE SortedTupleSet(_)
SortedTupleSet(S) ==
    IF S = {} THEN <<>>
    ELSE LET m == CHOOSE a \in S : \A b \in S : ~TupleLess(b, a)
         IN  <<m>> \o SortedTupleSet(S \ {m})

\* reversed(lst)
RECURSIVE Reversed(_)
Reversed(lst) == IF lst = <<>> THEN <<>> ELSE Append(Reversed(Tail(lst)), lst[1])

\* _split(n): the ordered sequences of positive integers that sum to n
RECURSIVE split(_)
RECURSIVE SplitFrom(_, _)
SplitFrom(n, k) ==
    IF k > n THEN <<>>
    ELSE (IF n - k = 0 THEN <<<<k>>>>
          ELSE LET items == split(n - k)
               IN  [i \in 1..Len(items) |-> <<k>> \o items[i]])
         \o SplitFrom(n, k + 1)

split(n) == SplitFrom(n, 1)

\* admissible_splits.ordered: tuple(sorted(lst, reverse=True)), on numbers
RECURSIVE InsertDesc(_, _)
InsertDesc(n, sorted) ==
    IF sorted = <<>> THEN <<n>>
    ELSE IF n > sorted[1] THEN <<n>> \o sorted
    ELSE <<sorted[1]>> \o InsertDesc(n, Tail(sorted))

RECURSIVE OrderedDesc(_)
OrderedDesc(lst) ==
    IF lst = <<>> THEN <<>> ELSE InsertDesc(lst[1], OrderedDesc(Tail(lst)))

\* admissible_splits(n, min_component_length)
admissible_splits(n, min_component_length) ==
    LET s == split(n)
        s1 == {OrderedDesc(s[i]) : i \in 1..Len(s)}
        s2 == {c \in s1 : \A i \in 1..Len(c) : c[i] >= min_component_length}
    IN  Reversed(SortedWordSet(s2))

\* Counter(word): letter -> number of occurrences, for the letters that occur
Counter(word) ==
    [l \in {word[i] : i \in 1..Len(word)} |-> Cardinality({i \in 1..Len(word) : word[i] = l})]

\* has(word, subword) that looks only for the letters, not their counts
has_LettersOnly(word, subword) ==
    \A letter \in DOMAIN subword : letter \in DOMAIN word

\* has(word, subword), on two Counters
has(word, subword) ==
    \A letter \in DOMAIN subword :
        ~(letter \notin DOMAIN word \/ word[letter] < subword[letter])

\* word - subword of two Counters: only the positive counts are kept
CounterMinus(a, b) ==
    LET d(l) == a[l] - (IF l \in DOMAIN b THEN b[l] ELSE 0)
    IN  [l \in {k \in DOMAIN a : d(k) > 0} |-> d(l)]

\* WordList.__init__: by_length[l] lists the words of l letters in file order
RECURSIVE WordsOfLength(_, _)
WordsOfLength(lst, l) ==
    IF lst = <<>> THEN <<>>
    ELSE (IF Len(lst[1]) = l THEN <<lst[1]>> ELSE <<>>) \o WordsOfLength(Tail(lst), l)

by_length(lst) ==
    [l \in {Len(lst[i]) : i \in 1..Len(lst)} |-> WordsOfLength(lst, l)]

\* comb(letters, lengths) with build_component inlined: the tuples it yields,
\* in order. CombFrom is its loop over words_by_length[m] from word i on.
RECURSIVE comb(_, _, _)
RECURSIVE CombFrom(_, _, _, _)
CombFrom(wbl, letters, lengths, i) ==
    LET m == lengths[1]
        rest == Tail(lengths)
    IN  IF i > Len(wbl[m]) THEN <<>>
        ELSE LET component == wbl[m][i]
                 component_letters == Counter(component)
                 here == IF ~has(letters, component_letters) THEN <<>>
                         ELSE IF Len(rest) = 0 THEN <<<<component>>>>
                         ELSE LET items == comb(wbl, CounterMinus(letters, component_letters), rest)
                              IN  [j \in 1..Len(items) |-> <<component>> \o items[j]]
             IN  here \o CombFrom(wbl, letters, lengths, i + 1)

comb(wbl, letters, lengths) == CombFrom(wbl, letters, lengths, 1)

\* The body of "for the_split in ...": what one split adds to out
SplitResults(wbl, word, the_split) ==
    IF ~(\A i \in 1..Len(the_split) : the_split[i] \in DOMAIN wbl) THEN <<>>
    ELSE LET results == comb(wbl, Counter(word), the_split)
             asSet == {SortedWords(results[i]) : i \in 1..Len(results)}
         IN  SortedTupleSet(asSet)

AnaIdle ==
    /\ anaWord = <<>>
    /\ anaLst = <<>>
    /\ anaMin = 0
    /\ anaSplits = <<>>
    /\ anaOut = <<>>
    /\ anaPc = "off"

\* anagrams(word, wordlist, min_component_length) is entered: out = []
AnaInit ==
    /\ anaWord \in AnaWords
    /\ anaLst \in UNION {ListsOfLen(n) : n \in 0..MaxAnaList}
    /\ anaMin \in 1..MaxAnaLen
    /\ anaSplits = admissible_splits(Len(anaWord), anaMin)
    /\ anaOut = <<>>
    /\ anaPc = "run"

\* one round of "for the_split in admissible_splits(len(word), min_component_length)"
AnaSplit ==
    /\ anaPc = "run"
    /\ anaSplits # <<>>
    /\ anaOut' = anaOut \o SplitResults(by_length(anaLst), anaWord, anaSplits[1])
    /\ anaSplits' = Tail(anaSplits)
    /\ UNCHANGED <<anaWord, anaLst, anaMin, anaPc>>

\* return out
AnaReturn ==
    /\ anaPc = "run"
    /\ anaSplits = <<>>
    /\ anaPc' = "returned"
    /\ UNCHANGED <<anaWord, anaLst, anaMin, anaSplits, anaOut>>

\* The anagrams of the claim: the tuples of at most n words of the list, each of
\* at least min letters, whose letters together are those of word.
RECURSIVE TuplesUpTo(_, _)
TuplesUpTo(W, n) ==
    IF n = 0 THEN {<<>>}
    ELSE LET shorter == TuplesUpTo(W, n - 1)
         IN  shorter \cup {Append(t, w) : t \in shorter, w \in W}

RECURSIVE Flatten(_)
Flatten(t) == IF t = <<>> THEN <<>> ELSE t[1] \o Flatten(Tail(t))

IsAscending(t) == \A i \in 1..(Len(t) - 1) : ~WordLess(t[i + 1], t[i])

AnagramsOf(word, lst, min) ==
    {t \in TuplesUpTo({lst[i] : i \in 1..Len(lst)}, Len(word)) :
        /\ t # <<>>
        /\ \A i \in 1..Len(t) : Len(t[i]) >= min
        /\ Counter(Flatten(t)) = Counter(word)
        /\ IsAscending(t)}

(***************************************************************************)
(* Python floats (IEEE 754 binary64), for the positive values wordgen.py    *)
(* computes. A float is [e, hi, lo]: the value (hi * 2^26 + lo) * 2^(e-52)  *)
(* with 2^26 <= hi < 2^27 and 0 <= lo < 2^26, a 53-bit significand held in  *)
(* two limbs; 0.0 has hi = lo = 0. Results are rounded to nearest, ties to  *)
(* even.                                                                   *)
(***************************************************************************)
Limb == 2^26

FloatZero == [e |-> 0 - 2000, hi |-> 0, lo |-> 0]
FloatOne == [e |-> 0, hi |-> Limb, lo |-> 0]

FloatIsZero(a) == a.hi = 0 /\ a.lo = 0

\* a < b
FloatLess(a, b) ==
    \/ a.e < b.e
    \/ a.e = b.e /\ a.hi < b.hi
    \/ a.e = b.e /\ a.hi = b.hi /\ a.lo < b.lo

\* carries of a rounded-up significand: lo = 2^26 moves into hi, hi = 2^27 into e
FloatNormalize(e, hi, lo) ==
    LET hi1 == IF lo >= Limb THEN hi + 1 ELSE hi
        lo1 == IF lo >= Limb THEN lo - Limb ELSE lo
    IN  IF hi1 >= 2 * Limb THEN [e |-> e + 1, hi |-> hi1 \div 2, lo |-> lo1 \div 2]
        ELSE [e |-> e, hi |-> hi1, lo |-> lo1]

\* the number k of doublings with n <= c * 2^k
RECURSIVE Doublings(_, _)
Doublings(c, n) == IF c >= n THEN 0 ELSE 1 + Doublings(2 * c, n)

\* c / n of two ints 1 <= c <= n < 32: long division, 26 bits at a time
FloatDiv(c, n) ==
    LET k == Doublings(c, n)
        r0 == c * 2^k - n
        h == (r0 * Limb) \div n
        r1 == (r0 * Limb) % n
        l == (r1 * Limb) \div n
        r2 == (r1 * Limb) % n
        up == 2 * r2 > n \/ (2 * r2 = n /\ l % 2 = 1)
    IN  FloatNormalize(0 - k, Limb + h, IF up THEN l + 1 ELSE l)

\* the significand [hi, lo] shifted right by d bits; g is the last bit shifted
\* out and st tells whether an earlier one was set
RECURSIVE ShiftRight(_, _)
ShiftRight(m, d) ==
    IF d = 0 THEN m
    ELSE ShiftRight([hi |-> m.hi \div 2,
                     lo |-> m.lo \div 2 + (m.hi % 2) * (Limb \div 2),
                     g |-> m.lo % 2,
                     st |-> m.st \/ m.g = 1], d - 1)

\* a + b of two floats >= 0
FloatAdd(a, b) ==
    IF FloatIsZero(a) THEN b
    ELSE IF FloatIsZero(b) THEN a
    ELSE LET big == IF FloatLess(a, b) THEN b ELSE a
             small == IF FloatLess(a, b) THEN a ELSE b
             sh == ShiftRight([hi |-> small.hi, lo |-> small.lo, g |-> 0, st |-> FALSE],
                              big.e - small.e)
             lo0 == big.lo + sh.lo
             sum == [hi |-> big.hi + sh.hi + (IF lo0 >= Limb THEN 1 ELSE 0),
                     lo |-> IF lo0 >= Limb THEN lo0 - Limb ELSE lo0,
                     g |-> sh.g, st |-> sh.st]
             over == sum.hi >= 2 * Limb
             m == IF over THEN ShiftRight(sum, 1) ELSE sum
             up == m.g = 1 /\ (m.st \/ m.lo % 2 = 1)
         IN  FloatNormalize(IF over THEN big.e + 1 ELSE big.e, m.hi,
                            IF up THEN m.lo + 1 ELSE m.lo)

(***************************************************************************)
(* wordgen.py                                                              *)
(*                                                                         *)
(* Letters are numbers, as in the anagram model; fillvalue, "*" in main,   *)
(* is 0, which sorts below every letter just as "*" sorts below "a".."z".  *)
(***************************************************************************)
WgLetters == {1, 2}
fillvalue == 0
\* main analyses segments of 6 letters that overlap by 5; the model, segments
\* of WgSegLength letters that overlap by WgOverlap letters
WgSegLength == 2
WgOverlap == 1
\* the longest input word, and how many words main reads
MaxWgLen == 3
MaxWgWords == 3
\* the largest max_tries a call passes, the number of calls main makes, and
\* the longest word the unfold may reach before the model stops following it
MaxTries == 3
MaxCalls == 1
MaxGenLen == 3

RECURSIVE WgWordsOfLen(_)
WgWordsOfLen(n) ==
    IF n = 0 THEN {<<>>}
    ELSE {Append(w, l) : w \in WgWordsOfLen(n - 1), l \in WgLetters}

WgWords == UNION {WgWordsOfLen(n) : n \in 1..MaxWgLen}

\* n * fillvalue
Fill(n) == [i \in 1..n |-> fillvalue]

\* tuple(ngrams(word, n))
ngrams(word, n) ==
    [i \in 1..(IF Len(word) >= n THEN Len(word) - n + 1 ELSE 0) |-> SubSeq(word, i, i + n - 1)]

\* database[pre][suf] += 1, with database[pre] = Counter() for a new pre
CounterAdd(database, pre, suf) ==
    LET counters == IF pre \in DOMAIN database THEN database[pre] ELSE <<>>
        old == IF suf \in DOMAIN counters THEN counters[suf] ELSE 0
        new == [u \in DOMAIN counters \cup {suf} |-> IF u = suf THEN old + 1 ELSE counters[u]]
    IN  [q \in DOMAIN database \cup {pre} |-> IF q = pre THEN new ELSE database[q]]

\* database_add_chains(database, grams, k): the database it leaves
RECURSIVE database_add_chains(_, _, _)
database_add_chains(database, grams, k) ==
    IF grams = <<>> THEN database
    ELSE LET ngram == grams[1]
             pre == SubSeq(ngram, 1, k)
             suf == SubSeq(ngram, k + 1, Len(ngram))
         IN  database_add_chains(CounterAdd(database, pre, suf), Tail(grams), k)

padded(word, seglen, ovl) == Fill(ovl) \o word \o Fill(seglen - ovl)

database_add_chains_from_word(database, word, seglen, ovl) ==
    database_add_chains(database, ngrams(padded(word, seglen, ovl), seglen), ovl)

\* sum(counters.values())
RECURSIVE CounterTotal(_)
CounterTotal(counters) ==
    IF DOMAIN counters = {} THEN 0
    ELSE LET u == CHOOSE v \in DOMAIN counters : TRUE
         IN  counters[u] + CounterTotal([v \in DOMAIN counters \ {u} |-> counters[v]])

\* the loop of database_finalize over sufs[:-1], from index i on, with the
\* cumulative probability s and the list out built so far
RECURSIVE CdfLoop(_, _, _, _, _, _)
CdfLoop(counters, sufs, n, i, s, cdf) ==
    IF i > Len(sufs) - 1 THEN cdf
    ELSE LET p == FloatDiv(counters[sufs[i]], n)
             s1 == FloatAdd(s, p)
         IN  CdfLoop(counters, sufs, n, i + 1, s1,
                     Append(cdf, [p |-> p, s |-> s1, suf |-> sufs[i]]))

\* the same loop, had it run over all of sufs
RECURSIVE CdfLoopAll(_, _, _, _, _, _)
CdfLoopAll(counters, sufs, n, i, s, cdf) ==
    IF i > Len(sufs) THEN cdf
    ELSE LET p == FloatDiv(counters[sufs[i]], n)
             s1 == FloatAdd(s, p)
         IN  CdfLoopAll(counters, sufs, n, i + 1, s1,
                        Append(cdf, [p |-> p, s |-> s1, suf |-> sufs[i]]))

\* the tuple database_finalize would store, had it left the last s to the sum
Cdf_SumOnly(counters) ==
    CdfLoopAll(counters, SortedWordSet(DOMAIN counters), CounterTotal(counters),
               1, FloatZero, <<>>)

\* the tuple database_finalize stores for one prefix
Cdf(counters) ==
    LET sufs == SortedWordSet(DOMAIN counters)
        n == CounterTotal(counters)
        cdf == CdfLoop(counters, sufs, n, 1, FloatZero, <<>>)
    IN  IF Len(sufs) > 0
        THEN Append(cdf, [p |-> FloatDiv(counters[sufs[Len(sufs)]], n),
                          s |-> FloatOne, suf |-> sufs[Len(sufs)]])
        ELSE cdf

database_finalize(database) == [pre \in DOMAIN database |-> Cdf(database[pre])]

\* more.rstrip(fillvalue)
RECURSIVE rstrip(_)
rstrip(more) ==
    IF more = <<>> \/ more[Len(more)] # fillvalue THEN more
    ELSE rstrip(SubSeq(more, 1, Len(more) - 1))

\* w[-n:] for 0 < n
LastN(w, n) == IF Len(w) <= n THEN w ELSE SubSeq(w, Len(w) - n + 1, Len(w))

\* random_advance for one x, here xr: the index of the entry it returns, the first
\* with x < s, or the last when x < s holds for none
random_advance(entries, xr) ==
    IF \E i \in 1..Len(entries) : FloatLess(xr, entries[i].s)
    THEN CHOOSE i \in 1..Len(entries) :
             /\ FloatLess(xr, entries[i].s)
             /\ \A j \in 1..(i - 1) : ~FloatLess(xr, entries[j].s)
    ELSE Len(entries)

\* the indices random_advance can return as x ranges over the floats of
\* [0, 1): it compares x with the s of the entries only, so 0.0 and the s
\* below 1.0 stand for every x
RandomAdvanceChoices(entries) ==
    {random_advance(entries, xr) :
        xr \in {v \in {FloatZero} \cup {entries[j].s : j \in 1..Len(entries)} :
                   FloatLess(v, FloatOne)}}

\* the condition that ends the loop "while True" of the tries, had it asked
\* for a word that is in existing_words
LoopEnds_Inverted(require_new, word, existing_words, tries, max_tries) ==
    ~require_new \/ word \in existing_words \/ tries >= max_tries

\* the condition that ends the loop "while True" of the tries
LoopEnds(require_new, word, existing_words, tries, max_tries) ==
    ~require_new \/ word \notin existing_words \/ tries >= max_tries

RECURSIVE WgListsOfLen(_)
WgListsOfLen(n) ==
    IF n = 0 THEN {<<>>}
    ELSE {Append(l, w) : l \in WgListsOfLen(n - 1), w \in WgWords}

NoReturn == [word |-> <<>>, tries |-> 0]

WgIdle ==
    /\ wgList = <<>>
    /\ wgJ = 0
    /\ wgDatabase = <<>>
    /\ wgExisting = {}
    /\ wgPc = "idle"
    /\ wgCalls = 0
    /\ wgMaxTries = 0
    /\ wgRequire = FALSE
    /\ wgTries = 0
    /\ wgWord = <<>>
    /\ wgState = <<>>
    /\ wgBefore = {}
    /\ wgRejected = {}
    /\ wgRet = NoReturn

\* main up to database_init(): the word list is read, existing_words is its set
WgInit ==
    /\ wgList \in UNION {WgListsOfLen(n) : n \in 0..MaxWgWords}
    /\ wgJ = 0
    /\ wgDatabase = <<>>
    /\ wgExisting = {wgList[i] : i \in 1..Len(wgList)}
    /\ wgPc = "build"
    /\ wgCalls = 0
    /\ wgMaxTries = 0
    /\ wgRequire = FALSE
    /\ wgTries = 0
    /\ wgWord = <<>>
    /\ wgState = <<>>
    /\ wgBefore = {}
    /\ wgRejected = {}
    /\ wgRet = NoReturn

\* one round of "for j,word in enumerate(wordlist)"
WgAnalyze ==
    /\ wgPc = "build"
    /\ wgJ < Len(wgList)
    /\ wgDatabase' = database_add_chains_from_word(wgDatabase, wgList[wgJ + 1],
                                                   WgSegLength, WgOverlap)
    /\ wgJ' = wgJ + 1
    /\ UNCHANGED <<wgList, wgExisting, wgPc, wgCalls, wgMaxTries, wgRequire, wgTries,
                   wgWord, wgState, wgBefore, wgRejected, wgRet>>

\* database_finalize(database), after the loop
WgFinalize ==
    /\ wgPc = "build"
    /\ wgJ = Len(wgList)
    /\ wgDatabase' = database_finalize(wgDatabase)
    /\ wgPc' = "final"
    /\ UNCHANGED <<wgList, wgJ, wgExisting, wgCalls, wgMaxTries, wgRequire, wgTries,
                   wgWord, wgState, wgBefore, wgRejected, wgRet>>

\* make_new_word(database, existing_words, overlap, fillvalue,
\*               max_tries=max_tries, require_new=require_new) is entered
WgCall(max_tries, require_new) ==
    /\ wgPc \in {"final", "returned"}
    /\ wgCalls < MaxCalls
    /\ wgCalls' = wgCalls + 1
    /\ wgMaxTries' = max_tries
    /\ wgRequire' = require_new
    /\ wgTries' = 0
    /\ wgBefore' = wgExisting
    /\ wgRejected' = {}
    /\ wgPc' = "try"
    /\ UNCHANGED <<wgList, wgJ, wgDatabase, wgExisting, wgWord, wgState, wgRet>>

\* the head of the outer "while True"
WgTry ==
    /\ wgPc = "try"
    /\ wgTries' = wgTries + 1
    /\ wgWord' = <<>>
    /\ wgState' = Fill(WgOverlap)
    /\ wgPc' = "advance"
    /\ UNCHANGED <<wgList, wgJ, wgDatabase, wgExisting, wgCalls, wgMaxTries, wgRequire,
                   wgBefore, wgRejected, wgRet>>

\* one round of the inner "while True"; database[state] raises KeyError for a
\* state that is no key
WgAdvance ==
    /\ wgPc = "advance"
    /\ Len(wgWord) <= MaxGenLen
    /\ IF wgState \notin DOMAIN wgDatabase
       THEN wgPc' = "raised" /\ UNCHANGED <<wgWord, wgState>>
       ELSE \E i \in RandomAdvanceChoices(wgDatabase[wgState]) :
                LET more == wgDatabase[wgState][i].suf
                IN  /\ wgWord' = wgWord \o rstrip(more)
                    /\ wgState' = LastN(wgState \o more, WgOverlap)
                    /\ wgPc' = IF more[Len(more)] = fillvalue THEN "check" ELSE "advance"
    /\ UNCHANGED <<wgList, wgJ, wgDatabase, wgExisting, wgCalls, wgMaxTries, wgRequire,
                   wgTries, wgBefore, wgRejected, wgRet>>

\* the foot of the outer "while True", and what follows the loop
WgCheck ==
    /\ wgPc = "check"
    /\ IF LoopEnds(wgRequire, wgWord, wgExisting, wgTries, wgMaxTries)
       THEN /\ wgExisting' = wgExisting \cup {wgWord}
            /\ wgRet' = [word |-> wgWord, tries |-> wgTries]
            /\ wgPc' = "returned"
            /\ UNCHANGED wgRejected
       ELSE /\ wgRejected' = wgRejected \cup {wgWord}
            /\ wgPc' = "try"
            /\ UNCHANGED <<wgExisting, wgRet>>
    /\ UNCHANGED <<wgList, wgJ, wgDatabase, wgCalls, wgMaxTries, wgRequire, wgTries,
                   wgWord, wgState, wgBefore>>

(***************************************************************************)
(* monads.py and amb.py: Python values                                     *)
(*                                                                         *)
(* A value is a record with its kind in k: an int [k, v], the bool True,   *)
(* the sentinel Empty, or a container [k, x] with its data in x.           *)
(***************************************************************************)
PyInt(n) == [k |-> "int", v |-> n]
PyTrue == [k |-> "bool", v |-> 1]
Empty == [k |-> "Empty", v |-> 0]

\* x is Empty
IsEmpty(val) == val.k = "Empty"

(***************************************************************************)
(* The List monad (the class List of monads.py and of amb.py, which agree) *)
(***************************************************************************)
\* List(*elts)
List(elts) ==
    IF Len(elts) = 1 /\ IsEmpty(elts[1]) THEN [k |-> "List", x |-> <<>>]
    ELSE [k |-> "List", x |-> elts]

\* List.from_iterable(iterable), iterable given as the tuple of its items
List_from_iterable(iterable) == List(iterable)

\* tuple(elt for sublist in lists for elt in sublist)
RECURSIVE Chained(_)
Chained(lists) ==
    IF lists = <<>> THEN <<>> ELSE lists[1].x \o Chained(Tail(lists))

\* self.join() that takes the sublists from the last to the first
List_join_Backwards(self) ==
    List_from_iterable(Chained([i \in 1..Len(self.x) |-> self.x[Len(self.x) + 1 - i]]))

\* self.join(); every element of self is a List
List_join(self) == List_from_iterable(Chained(self.x))

\* The functions bound to a List: a is the argument.
\*   table: lambda a: List(*t[a])       pairs: lambda a: List(*ys) >> (lambda b: List(a + b))
\*   const: lambda _: m
RECURSIVE Call(_, _)
RECURSIVE List_fmap(_, _)
RECURSIVE List_rshift(_, _)

\* f(a)
Call(f, a) ==
    CASE f.op = "table" -> List(f.t[a.v])
      [] f.op = "const" -> f.m
      [] f.op = "pairs" -> List_rshift(List(f.ys), [op |-> "sum", a |-> a])
      [] f.op = "sum" -> List(<<PyInt(f.a.v + a.v)>>)

\* self.fmap(f)
List_fmap(self, f) ==
    List_from_iterable([i \in 1..Len(self.x) |-> Call(f, self.x[i])])

\* self >> f
List_rshift(self, f) == List_join(List_fmap(self, f))

\* the arguments self.fmap(f) calls f with, in order
List_fmap_calls(self) == self.x

\* self.then(f) that forgets self
List_then_Forgetful(self, f) == f

\* self.then(f), f a List
List_then(self, f) == List_rshift(self, [op |-> "const", m |-> f])

\* List.guard(b)
List_guard(b) == IF b THEN List(<<PyTrue>>) ELSE List(<<>>)

\* the longest argument list of a List(...) call, the ints the Lists hold,
\* and the operations one run applies
MaxListLen == 2
MaxListInt == 2
LsItems == {Empty} \cup {PyInt(n) : n \in 1..MaxListInt}

RECURSIVE LsTuplesOfLen(_, _)
LsTuplesOfLen(S, n) ==
    IF n = 0 THEN {<<>>}
    ELSE {Append(t, e) : t \in LsTuplesOfLen(S, n - 1), e \in S}

\* the argument lists of a call List(...)
LsArgLists == UNION {LsTuplesOfLen(LsItems, n) : n \in 0..MaxListLen}

\* the argument lists of ints, each a multiple of scale
LsIntLists(scale) ==
    UNION {LsTuplesOfLen({PyInt(scale * i) : i \in 1..MaxListInt}, n) : n \in 0..MaxListLen}

\* the functions lambda a: List(*t[a]); t is indexed by a.v, 0 for Empty
LsTables == {[op |-> "table", t |-> t] : t \in [0..MaxListInt -> LsArgLists]}

NoFunction == [op |-> "none"]

LsIdle ==
    /\ lsSelf = List(<<>>)
    /\ lsGuarded = FALSE
    /\ lsB = FALSE
    /\ lsOp = "idle"
    /\ lsF = NoFunction
    /\ lsOut = List(<<>>)
    /\ lsCalls = <<>>

\* a List is constructed
LsInit ==
    /\ lsSelf \in {List(elts) : elts \in LsArgLists \cup LsIntLists(10)}
    /\ lsGuarded = FALSE
    /\ lsB = FALSE
    /\ lsOp = "new"
    /\ lsF = NoFunction
    /\ lsOut = List(<<>>)
    /\ lsCalls = <<>>

\* List.guard(b), the List the next operation is applied to
LsGuard(b) ==
    /\ lsOp = "new"
    /\ lsSelf' = List_guard(b)
    /\ lsGuarded' = TRUE
    /\ lsB' = b
    /\ lsOp' = "guard"
    /\ UNCHANGED <<lsF, lsOut, lsCalls>>

\* lsSelf >> f, for an f that is defined on the elements of lsSelf
LsBind(f) ==
    /\ lsOp \in {"new", "guard"}
    /\ f.op = "table" => \A i \in 1..Len(lsSelf.x) : lsSelf.x[i].v \in DOMAIN f.t
    /\ lsOut' = List_rshift(lsSelf, f)
    /\ lsCalls' = List_fmap_calls(lsSelf)
    /\ lsF' = f
    /\ lsOp' = "bind"
    /\ UNCHANGED <<lsSelf, lsGuarded, lsB>>

\* lsSelf >> (lambda a: List(*ys) >> (lambda b: List(a + b))), as in main of
\* amb.py, for a List of tens and ys of units
LsNested(ys) ==
    /\ lsOp = "new"
    /\ \A i \in 1..Len(lsSelf.x) : lsSelf.x[i].k = "int" /\ lsSelf.x[i].v >= 10
    /\ lsOut' = List_rshift(lsSelf, [op |-> "pairs", ys |-> ys])
    /\ lsCalls' = List_fmap_calls(lsSelf)
    /\ lsF' = [op |-> "pairs", ys |-> ys]
    /\ lsOp' = "nested"
    /\ UNCHANGED <<lsSelf, lsGuarded, lsB>>

\* lsSelf.then(f)
LsThen(f) ==
    /\ lsOp \in {"new", "guard"}
    /\ lsOut' = List_then(lsSelf, f)
    /\ lsCalls' = List_fmap_calls(lsSelf)
    /\ lsF' = [op |-> "const", m |-> f]
    /\ lsOp' = "then"
    /\ UNCHANGED <<lsSelf, lsGuarded, lsB>>

(***************************************************************************)
(* The Maybe monad of monads.py                                            *)
(***************************************************************************)
\* Maybe(x)
Maybe(val) == [k |-> "Maybe", x |-> val]

\* the test "self.x is Empty" of fmap, had it never held
Maybe_is_nothing_Never(self) == FALSE

\* the test "self.x is Empty" of fmap
Maybe_is_nothing(self) == IsEmpty(self.x)

\* f(a) for the functions bound to a Maybe: f is a table indexed by a.v, 0 for
\* Empty, and f(a) is Maybe(Empty) where the table holds 0, as maybe_sqrt is
\* for x < 0
MbCall(f, a) == Maybe(IF f[a.v] = 0 THEN Empty ELSE PyInt(f[a.v]))

\* self.fmap(f)
Maybe_fmap(self, f) ==
    IF Maybe_is_nothing(self) THEN self ELSE Maybe(MbCall(f, self.x))

\* the arguments self.fmap(f) calls f with
Maybe_fmap_calls(self) ==
    IF Maybe_is_nothing(self) THEN <<>> ELSE <<self.x>>

\* self.join(); self.x is Empty or a Maybe
Maybe_join(self) == IF IsEmpty(self.x) THEN self ELSE self.x

\* self >> f
Maybe_rshift(self, f) == Maybe_join(Maybe_fmap(self, f))

\* the ints a Maybe holds, and the longest chain
MaxMbInt == 2
MaxChain == 3

MbFunctions == [0..MaxMbInt -> 0..MaxMbInt]

MbIdle ==
    /\ mbFs = <<>>
    /\ mbI = 0
    /\ mbTrace = <<>>
    /\ mbCalls = <<>>

\* m = Maybe(...) is constructed and the chain is about to be evaluated
MbInit ==
    /\ mbFs \in UNION {[1..n -> MbFunctions] : n \in 1..MaxChain}
    /\ mbI = 0
    /\ mbTrace \in {<<Maybe(val)>> : val \in {Empty} \cup {PyInt(n) : n \in 1..MaxMbInt}}
    /\ mbCalls = <<>>

\* the next >> of the chain, which Python evaluates from the left
MbBind ==
    /\ mbTrace # <<>>
    /\ mbI < Len(mbFs)
    /\ LET self == mbTrace[Len(mbTrace)]
           args == Maybe_fmap_calls(self)
       IN  /\ mbTrace' = Append(mbTrace, Maybe_rshift(self, mbFs[mbI + 1]))
           /\ mbCalls' = mbCalls \o [i \in 1..Len(args) |-> <<mbI + 1, args[i]>>]
    /\ mbI' = mbI + 1
    /\ UNCHANGED mbFs

(***************************************************************************)
(* The do notation of monads.py, for the List monad                        *)
(*                                                                         *)
(* A body is a List instance, or a function of the environment e:          *)
(*   list: List(elt, ...)   inc: lambda e: List(e.n + 10)                  *)
(*   sum: lambda e: List(e.n + e.m)                                        *)
(* allcode is kept as the sequence of its pieces:                          *)
(*   bodys[j](e)   bodys[j]   )   >>   (lambda n:   begin(                  *)
(*   e.close_over(fvs),   e.assign('n', n),   .then(                        *)
(***************************************************************************)
DoNames == {"a", "b"}
\* the most lines of a do
MaxDoLines == 4

DoBody(op, elts, n, m) == [op |-> op, elts |-> elts, n |-> n, m |-> m]

DoBodies ==
    {DoBody("list", elts, "", "") : elts \in {<<>>, <<PyInt(1), PyInt(2)>>}}
    \cup {DoBody("inc", <<>>, n, "") : n \in DoNames}
    \cup {DoBody("sum", <<>>, "a", "b")}

\* callable(body)
DoCallable(body) == body.op # "list"

\* the names a body reads
DoReads(body) ==
    CASE body.op = "list" -> {}
      [] body.op = "inc" -> {body.n}
      [] body.op = "sum" -> {body.n, body.m}

\* body(e), or the value of the same expression over the variables of a
\* hand-written chain: vals maps the names that are bound to their values.
\* An unbound name raises (AttributeError, NameError).
DoBodyValue(body, vals) ==
    IF ~(DoReads(body) \subseteq DOMAIN vals) THEN [val |-> List(<<>>), err |-> TRUE]
    ELSE CASE body.op = "list" -> [val |-> List(body.elts), err |-> FALSE]
           [] body.op = "inc" ->
                [val |-> List(<<PyInt(vals[body.n].v + 10)>>), err |-> FALSE]
           [] body.op = "sum" ->
                [val |-> List(<<PyInt(vals[body.n].v + vals[body.m].v)>>), err |-> FALSE]

DoToken(t, j, n, fvs) == [t |-> t, j |-> j, n |-> n, fvs |-> fvs]

\* the pieces of " >> (lambda n:\nbegin(e.close_over(fvs), e.assign('n', n), "
DoBindCode(n, fvs) ==
    <<DoToken(">>", 0, "", {}), DoToken("(lambda", 0, n, {}), DoToken("begin(", 0, "", {}),
      DoToken("e.close_over", 0, "", fvs), DoToken("e.assign", 0, n, {})>>

\* the pieces of " >> (lambda _:\nbegin(e.close_over(set()), "
DoBindFirstCode ==
    <<DoToken(">>", 0, "", {}), DoToken("(lambda", 0, "_", {}), DoToken("begin(", 0, "", {}),
      DoToken("e.close_over", 0, "", {})>>

DoCloseCode == <<DoToken(")", 0, "", {})>>

\* ")" * n
RECURSIVE DoCloses(_)
DoCloses(n) == IF n = 0 THEN <<>> ELSE DoCloseCode \o DoCloses(n - 1)

\* the class env: names is self.names, attrs the attributes set on the object
DoNewEnv == [names |-> {}, attrs |-> <<>>, err |-> FALSE]

\* e.assign(k, v)
assign(e, k, v) ==
    [names |-> e.names \cup {k},
     attrs |-> [a \in DOMAIN e.attrs \cup {k} |-> IF a = k THEN v ELSE e.attrs[a]],
     err |-> e.err]

\* e.close_over(freevars); delattr raises for a name that is no attribute
close_over(e, freevars) ==
    LET names_to_clear == {k \in e.names : k \notin freevars}
    IN  [names |-> freevars,
         attrs |-> [a \in DOMAIN e.attrs \ names_to_clear |-> e.attrs[a]],
         err |-> e.err \/ ~(names_to_clear \subseteq DOMAIN e.attrs)]

\* the index of the ")" that closes what was opened just before pos
RECURSIVE DoMatchingClose(_, _, _)
DoMatchingClose(code, pos, depth) ==
    IF code[pos].t = ")"
    THEN IF depth = 0 THEN pos ELSE DoMatchingClose(code, pos + 1, depth - 1)
    ELSE IF code[pos].t \in {"(lambda", "begin(", ".then("}
         THEN DoMatchingClose(code, pos + 1, depth + 1)
         ELSE DoMatchingClose(code, pos + 1, depth)

\* scope with the parameter n bound to v
DoBound(scope, n, v) ==
    [k \in DOMAIN scope \cup {n} |-> IF k = n THEN v ELSE scope[k]]

\* eval of the expression of code that starts at pos, as Python evaluates it:
\* e is the env object, which the evaluation changes, and scope holds the
\* parameters of the enclosing lambdas. The result is [val, pos, e], pos being
\* the place after the expression; an exception is kept in e.err.
RECURSIVE DoExpr(_, _, _, _, _)
RECURSIVE DoPrimary(_, _, _, _, _)
RECURSIVE DoBegin(_, _, _, _, _)
RECURSIVE DoSuffixes(_, _, _, _)
RECURSIVE DoLambdaOver(_, _, _, _, _, _, _, _, _)

DoExpr(code, bodys, pos, e, scope) ==
    DoSuffixes(code, bodys, DoPrimary(code, bodys, pos, e, scope), scope)

\* bodys[j], bodys[j](e) or begin(...)
DoPrimary(code, bodys, pos, e, scope) ==
    LET tok == code[pos]
    IN  CASE tok.t = "bodys[j]" ->
                [val |-> List(bodys[tok.j + 1].elts), pos |-> pos + 1, e |-> e]
          [] tok.t = "bodys[j](e)" ->
                LET r == DoBodyValue(bodys[tok.j + 1], e.attrs)
                IN  [val |-> r.val, pos |-> pos + 1, e |-> [e EXCEPT !.err = @ \/ r.err]]
          [] tok.t = "begin(" -> DoBegin(code, bodys, pos + 1, e, scope)

\* the arguments of begin( from pos on, evaluated in order; the last is its value
DoBegin(code, bodys, pos, e, scope) ==
    LET tok == code[pos]
    IN  CASE tok.t = "e.close_over" ->
                DoBegin(code, bodys, pos + 1, close_over(e, tok.fvs), scope)
          [] tok.t = "e.assign" ->
                DoBegin(code, bodys, pos + 1, assign(e, tok.n, scope[tok.n]), scope)
          [] OTHER ->
                LET r == DoExpr(code, bodys, pos, e, scope)
                IN  [r EXCEPT !.pos = @ + 1]

\* what follows a value r.val: " >> (lambda n: ...)" or ".then(...)", repeated
DoSuffixes(code, bodys, r, scope) ==
    IF r.e.err \/ r.pos > Len(code) THEN r
    ELSE CASE code[r.pos].t = ">>" ->
                LET n == code[r.pos + 1].n
                    close == DoMatchingClose(code, r.pos + 2, 0)
                    calls == DoLambdaOver(code, bodys, r.pos + 2, n, r.val.x, 1, r.e, scope, <<>>)
                IN  DoSuffixes(code, bodys,
                               [val |-> List_join(List_from_iterable(calls.vals)),
                                pos |-> close + 1, e |-> calls.e], scope)
           [] code[r.pos].t = ".then(" ->
                LET f == DoExpr(code, bodys, r.pos + 1, r.e, scope)
                IN  DoSuffixes(code, bodys,
                               [val |-> List_then(r.val, f.val), pos |-> f.pos + 1, e |-> f.e],
                               scope)
           [] OTHER -> r

\* self.fmap(lambda n: ...) for the lambda whose body starts at pos: the calls
\* for the elements elts[i], elts[i + 1], ..., after vals for the ones before
DoLambdaOver(code, bodys, pos, n, elts, i, e, scope, vals) ==
    IF i > Len(elts) \/ e.err THEN [vals |-> vals, e |-> e]
    ELSE LET r == DoExpr(code, bodys, pos, e, DoBound(scope, n, elts[i]))
         IN  DoLambdaOver(code, bodys, pos, n, elts, i + 1, r.e, scope, Append(vals, r.val))

\* eval(allcode, {"e": e, "bodys": bodys, "begin": begin})
DoEvalCode(code, bodys) == DoExpr(code, bodys, 1, DoNewEnv, <<>>)

\* the names the let lines before line j bind
DoBoundBefore(lines, j) == {lines[i].name : i \in 1..(j - 1)} \ {""}

\* the lines of a do of n lines: (name, body), name "" for a bare body, every
\* body reading only names that a let line above it binds
RECURSIVE DoPrograms(_)
DoPrograms(n) ==
    IF n = 0 THEN {<<>>}
    ELSE UNION {{Append(lines, [name |-> name, body |-> body]) :
                     name \in DoNames \cup {""},
                     body \in {b \in DoBodies : DoReads(b) \subseteq DoBoundBefore(lines, n)}} :
                 lines \in DoPrograms(n - 1)}

DoIdle ==
    /\ doLines = <<>>
    /\ doJ = 0
    /\ doCode = <<>>
    /\ doNames = {}
    /\ doBodys = <<>>
    /\ doBeginOpen = FALSE
    /\ doPc = "idle"
    /\ doResult = List(<<>>)
    /\ doRaised = FALSE

\* do(*lines) is entered
DoInit ==
    /\ doLines \in UNION {DoPrograms(n) : n \in 1..MaxDoLines}
    /\ doJ = 0
    /\ doCode = <<>>
    /\ doNames = {}
    /\ doBodys = <<>>
    /\ doBeginOpen = FALSE
    /\ doPc = "gen"
    /\ doResult = List(<<>>)
    /\ doRaised = FALSE

\* one round of "for j, item in enumerate(lines)"
DoLine ==
    /\ doPc = "gen"
    /\ doJ < Len(doLines)
    /\ LET j == doJ
           is_first == j = 0
           is_last == j = Len(doLines) - 1
           name == doLines[j + 1].name
           body == doLines[j + 1].body
           freevars == doNames
           code1 == IF DoCallable(body) THEN <<DoToken("bodys[j](e)", j, "", {})>>
                    ELSE <<DoToken("bodys[j]", j, "", {})>>
           code2 == IF doBeginOpen THEN code1 \o DoCloseCode ELSE code1
           code3 == IF is_last THEN code2
                    ELSE IF name # "" THEN code2 \o DoBindCode(name, freevars)
                    ELSE IF is_first THEN code2 \o DoBindFirstCode
                    ELSE code2 \o <<DoToken(".then(", 0, "", {})>>
       IN  /\ doBodys' = Append(doBodys, body)
           /\ doNames' = IF name # "" THEN doNames \cup {name} ELSE doNames
           /\ doBeginOpen' = (~is_last /\ (name # "" \/ is_first))
           /\ doCode' = doCode \o code3
    /\ doJ' = doJ + 1
    /\ UNCHANGED <<doLines, doPc, doResult, doRaised>>

\* after the loop: the closing parentheses, and the eval
DoEval ==
    /\ doPc = "gen"
    /\ doJ = Len(doLines)
    /\ LET allcode == doCode \o DoCloses(Len(doLines) - 1)
           r == DoEvalCode(allcode, doBodys)
       IN  /\ doCode' = allcode
           /\ doRaised' = r.e.err
           /\ doResult' = IF r.e.err THEN List(<<>>) ELSE r.val
    /\ doPc' = "done"
    /\ UNCHANGED <<doLines, doJ, doNames, doBodys, doBeginOpen>>

(***************************************************************************)
(* The State monad (class State of monads.py).  A State object wraps a     *)
(* processor s -> (a, s); the wrapped function is kept as a record that    *)
(* says which lambda of the class, or which processor of the user, it is.  *)
(* Data values are tagged Python values, state values are the integers of  *)
(* main.  A run is followed call by call, with the pending calls on a      *)
(* stack.                                                                  *)
(***************************************************************************)
MaxStChain == 3     \* State objects composed into one chain
MaxStDelta == 2     \* a user's processor advances the state by 1..MaxStDelta
MaxStInit == 2      \* initial states 0..MaxStInit

\* main's processor: (values[s%5], s+1); d is the step, 1 for getNext, and
\* values[i] is kept as the one-character string number i
processor(d, s) == [a |-> [k |-> "str", v |-> s % 5], s |-> s + d]

\* State.unit(a): cls(lambda s: (a, s))
State_unit(a) == [op |-> "unit", a |-> a]

\* State.get(): cls(lambda s: (s, s))
State_get == [op |-> "get"]

\* State.put(s) and its lambda _: (Empty, s)
State_put(s) == [op |-> "put", s |-> s]
put_lambda_Keep(s, old) == [a |-> Empty, s |-> old]
put_lambda(s, old) == [a |-> Empty, s |-> s]

\* self >> f: State(composed)
State_rshift(self, f) == [op |-> "composed", self |-> self, f |-> f]

\* self.then(f): self >> (lambda _: f)
State_then(self, f) == State_rshift(self, [fn |-> "const", m |-> f])

\* State.modify(f): cls.get() >> (lambda s: cls.put(f(s)))
State_modify(f) == State_rshift(State_get, [fn |-> "put", g |-> f])

\* State.gets(f): cls.get() >> (lambda s: cls.unit(f(s)))
State_gets(f) == State_rshift(State_get, [fn |-> "unit", g |-> f])

\* the functions of main given to modify and gets: lambda s: 2 * s and
\* lambda s: "the state is now {}".format(s), whose result is kept as the tagged
\* s; "zero" is lambda s: 0
StApply(g, s) ==
    CASE g = "double" -> PyInt(2 * s)
      [] g = "zero" -> PyInt(0)
      [] g = "format" -> [k |-> "fmt", v |-> s]

\* f(a) for the code blocks bound into: lambda _: f of then, lambda z:
\* State.unit(z) of main, and the lambdas of modify and gets
StCall(f, a) ==
    CASE f.fn = "const" -> f.m
      [] f.fn = "return" -> State_unit(a)
      [] f.fn = "put" -> State_put(StApply(f.g, a.v).v)
      [] f.fn = "unit" -> State_unit(StApply(f.g, a.v))

\* self.processor(s) for the State objects that wrap no composition: a user's
\* processor, unit's lambda s: (a, s), get's lambda s: (s, s), and put's lambda
StProcessor(m, s) ==
    CASE m.op = "processor" -> processor(m.d, s)
      [] m.op = "unit" -> [a |-> m.a, s |-> s]
      [] m.op = "get" -> [a |-> PyInt(s), s |-> s]
      [] m.op = "put" -> put_lambda(m.s, s)

\* the calls composed(s) makes, in order: self.run(s), f(a), and
\* new_processor.run(sprime), after which composed returns
composed_Twice(m, s) ==
    <<[k |-> "run", m |-> m.self], [k |-> "run", m |-> m.self],
      [k |-> "call", f |-> m.f], [k |-> "return", m |-> m, s |-> s]>>
composed(m, s) ==
    <<[k |-> "run", m |-> m.self], [k |-> "call", f |-> m.f],
      [k |-> "return", m |-> m, s |-> s]>>

\* the State objects main composes: State(processor) for the id-th processor
\* of the user, and unit, get, put, modify, gets
StObjects(id) ==
    {[op |-> "processor", id |-> id, d |-> d] : d \in 1..MaxStDelta}
        \cup {State_unit(PyInt(7)), State_get}
        \cup {State_put(s) : s \in {0, 4}}
        \cup {State_modify(g) : g \in {"double", "zero"}}
        \cup {State_gets(g) : g \in {"double", "format"}}

StIdle ==
    /\ stChain = State_get
    /\ stN = 0
    /\ stPc = "idle"
    /\ stStack = <<>>
    /\ stA = Empty
    /\ stS = 0
    /\ stInit = 0
    /\ stLog = <<>>

\* the first State object of a chain
StInit ==
    /\ stChain \in StObjects(1)
    /\ stN = 1
    /\ stPc = "compose"
    /\ stStack = <<>>
    /\ stA = Empty
    /\ stS = 0
    /\ stInit = 0
    /\ stLog = <<>>

\* chain.then(p), as in getNext.then(getNext).then(State.put(42))
StThen ==
    /\ stPc = "compose"
    /\ stN < MaxStChain
    /\ \E p \in StObjects(stN + 1) : stChain' = State_then(stChain, p)
    /\ stN' = stN + 1
    /\ UNCHANGED <<stPc, stStack, stA, stS, stInit, stLog>>

\* p >> (lambda x: chain), as in getNext >> (lambda x: getNext >> ...)
StBindInto ==
    /\ stPc = "compose"
    /\ stN < MaxStChain
    /\ \E p \in StObjects(stN + 1) :
           stChain' = State_rshift(p, [fn |-> "const", m |-> stChain])
    /\ stN' = stN + 1
    /\ UNCHANGED <<stPc, stStack, stA, stS, stInit, stLog>>

\* chain >> (lambda z: State.unit(z))
StBindUnit ==
    /\ stPc = "compose"
    /\ stN < MaxStChain
    /\ stChain' = State_rshift(stChain, [fn |-> "return"])
    /\ stN' = stN + 1
    /\ UNCHANGED <<stPc, stStack, stA, stS, stInit, stLog>>

\* chain.run(s)
StRun ==
    /\ stPc = "compose"
    /\ \E s \in 0..MaxStInit : stS' = s /\ stInit' = s
    /\ stStack' = <<[k |-> "run", m |-> stChain]>>
    /\ stPc' = "run"
    /\ UNCHANGED <<stChain, stN, stA, stLog>>

\* run(s) of a composition: enter composed(s)
StComposed ==
    /\ stPc = "run"
    /\ stStack # <<>>
    /\ Head(stStack).k = "run"
    /\ Head(stStack).m.op = "composed"
    /\ stStack' = composed(Head(stStack).m, stS) \o Tail(stStack)
    /\ UNCHANGED <<stChain, stN, stPc, stA, stS, stInit, stLog>>

\* run(s) of any other State object: its processor runs and returns (a, s)
StProcess ==
    /\ stPc = "run"
    /\ stStack # <<>>
    /\ Head(stStack).k = "run"
    /\ Head(stStack).m.op # "composed"
    /\ LET m == Head(stStack).m
           r == StProcessor(m, stS)
       IN  /\ stA' = r.a
           /\ stS' = r.s
           /\ stLog' = Append(stLog, [m |-> m, s |-> stS, a |-> r.a,
                                      sprime |-> r.s])
    /\ stStack' = Tail(stStack)
    /\ stPc' = IF Len(stStack) = 1 THEN "done" ELSE "run"
    /\ UNCHANGED <<stChain, stN, stInit>>

\* new_processor = f(a), to be run with sprime
StNewProcessor ==
    /\ stPc = "run"
    /\ stStack # <<>>
    /\ Head(stStack).k = "call"
    /\ stStack' = <<[k |-> "run", m |-> StCall(Head(stStack).f, stA)]>>
                      \o Tail(stStack)
    /\ UNCHANGED <<stChain, stN, stPc, stA, stS, stInit, stLog>>

\* composed(s) returns what new_processor.run(sprime) returned
StReturn ==
    /\ stPc = "run"
    /\ stStack # <<>>
    /\ Head(stStack).k = "return"
    /\ stLog' = Append(stLog, [m |-> Head(stStack).m, s |-> Head(stStack).s,
                               a |-> stA, sprime |-> stS])
    /\ stStack' = Tail(stStack)
    /\ stPc' = IF Len(stStack) = 1 THEN "done" ELSE "run"
    /\ UNCHANGED <<stChain, stN, stA, stS, stInit>>

(***************************************************************************)
(* The Reader monad (class Reader of monads.py).  A Reader wraps a         *)
(* function env -> a, kept as a record that says which lambda of the class *)
(* it is.  An environment is a string, kept as the sequence of its pieces. *)
(***************************************************************************)
MaxRdChain == 3     \* Readers composed into one chain

\* Reader.unit(x): cls(lambda _: x)
Reader_unit(xv) == [op |-> "unit", xv |-> xv]

\* Reader.ask(): cls(lambda env: env)
Reader_ask == [op |-> "ask"]

\* self.local(f): cls(lambda env: self.run(f(env)))
Reader_local(self, f) == [op |-> "local", self |-> self, f |-> f]

\* self.fmap(f): cls(lambda env: f(self.run(env)))
Reader_fmap(self, f) == [op |-> "fmap", self |-> self, f |-> f]

\* self.join(): cls(lambda env: (self.run(env)).run(env))
Reader_join(self) == [op |-> "join", self |-> self]

\* self >> f: self.fmap(f).join()
Reader_rshift(self, f) == Reader_join(Reader_fmap(self, f))

\* self.then(f): self >> (lambda _: f)
Reader_then(self, f) == Reader_rshift(self, [fn |-> "const", m |-> f])

\* Reader.asks(f): cls.ask() >> (lambda env: cls.unit(f(env)))
Reader_asks(f) == Reader_rshift(Reader_ask, [fn |-> "unit", g |-> f])

\* the functions of the environment: main's lambda env: "{} sauce".format(env),
\* and lambda env: env + env
RdFunctions == {"sauce", "twice"}
RdApply(g, env) ==
    CASE g = "sauce" -> Append(env, " sauce")
      [] g = "twice" -> env \o env

\* f(env) of local's lambda
local_env_Unmodified(f, env) == env
local_env(f, env) == RdApply(f, env)

\* f(a) for the functions given to fmap by then and asks
RdCall(f, a) ==
    CASE f.fn = "const" -> f.m
      [] f.fn = "unit" -> Reader_unit(RdApply(f.g, a))

\* self.run(env): self.r(env).  The result is a, and log lists the Readers
\* that were run with the environment each was given; loc names the functions
\* of the local()s the Reader is wrapped in, outermost first.
RECURSIVE Reader_run(_, _, _)
Reader_run(self, env, loc) ==
    LET this == <<[r |-> self, env |-> env, loc |-> loc]>>
    IN  CASE self.op = "unit" -> [a |-> self.xv, log |-> this]
          [] self.op = "ask" -> [a |-> env, log |-> this]
          [] self.op = "local" ->
                LET res == Reader_run(self.self, local_env(self.f, env),
                                      Append(loc, self.f))
                IN  [a |-> res.a, log |-> this \o res.log]
          [] self.op = "fmap" ->
                LET res == Reader_run(self.self, env, loc)
                IN  [a |-> RdCall(self.f, res.a), log |-> this \o res.log]
          [] self.op = "join" ->
                LET outer == Reader_run(self.self, env, loc)
                    inner == Reader_run(outer.a, env, loc)
                IN  [a |-> inner.a, log |-> this \o outer.log \o inner.log]

\* the Readers main composes: unit, ask, asks, and a local of one of them
RdObjects ==
    LET plain == {Reader_ask, Reader_unit(<<"hello">>)}
                     \cup {Reader_asks(g) : g \in RdFunctions}
    IN  plain \cup {Reader_local(q, f) : q \in plain, f \in RdFunctions}

RdIdle ==
    /\ rdChain = Reader_ask
    /\ rdN = 0
    /\ rdPc = "idle"
    /\ rdEnv = <<>>
    /\ rdResult = <<>>
    /\ rdLog = <<>>

\* r = Reader.ask(), or another first Reader
RdInit ==
    /\ rdChain \in RdObjects
    /\ rdN = 1
    /\ rdPc = "compose"
    /\ rdEnv = <<>>
    /\ rdResult = <<>>
    /\ rdLog = <<>>

\* r3 = r2.then(Reader.ask())
RdThen ==
    /\ rdPc = "compose"
    /\ rdN < MaxRdChain
    /\ \E p \in RdObjects : rdChain' = Reader_then(rdChain, p)
    /\ rdN' = rdN + 1
    /\ UNCHANGED <<rdPc, rdEnv, rdResult, rdLog>>

\* r2 = r.local(lambda env: "{} sauce".format(env))
RdLocal ==
    /\ rdPc = "compose"
    /\ rdN < MaxRdChain
    /\ \E f \in RdFunctions : rdChain' = Reader_local(rdChain, f)
    /\ rdN' = rdN + 1
    /\ UNCHANGED <<rdPc, rdEnv, rdResult, rdLog>>

\* print(r3.run("Chocolate"))
RdRun ==
    /\ rdPc = "compose"
    /\ \E env \in {<<"hello">>, <<"Chocolate">>} :
           LET res == Reader_run(rdChain, env, <<>>)
           IN  /\ rdEnv' = env
               /\ rdResult' = res.a
               /\ rdLog' = res.log
    /\ rdPc' = "done"
    /\ UNCHANGED <<rdChain, rdN>>

(***************************************************************************)
(* let2.py: let, letrec, dlet, dletrec.  An environment is an object with  *)
(* attributes, kept as the dict of its attributes; None is kept apart from *)
(* an environment without attributes.  A value is an int or a callable of  *)
(* the environment, lambda o: o.name + c.                                  *)
(***************************************************************************)
MaxLetBindings == 2     \* bindings of one let
MaxLetFuns == 2         \* decorated functions
MaxLetCalls == 3        \* calls of decorated functions

\* None, and _env(): a new environment
None == [isNone |-> TRUE, d |-> EmptyDict]
_env == [isNone |-> FALSE, d |-> EmptyDict]

\* setattr(env, k, v)
setattr(env, k, v) ==
    [env EXCEPT !.d = [nm \in DOMAIN env.d \cup {k} |->
                           IF nm = k THEN v ELSE env.d[nm]]]

\* hasattr(env, k): None has none of the names
LetHas(env, k) == ~env.isNone /\ k \in DOMAIN env.d

\* lambda o: o.name + c, as in ('b', lambda o: o.a + 2)
LetLambda(name, c) == [k |-> "fn", name |-> name, c |-> c]

\* callable(v)
callable(v) == v.k = "fn"

\* v(env) for a callable value: raises when o.name is missing or no number
LetCallValue(v, env) ==
    IF LetHas(env, v.name) /\ ~callable(env.d[v.name])
    THEN [val |-> PyInt(env.d[v.name].v + v.c), raised |-> FALSE]
    ELSE [val |-> Empty, raised |-> TRUE]

\* body(env) for the bodies of _test: lambda o: o.name, lambda o:
\* o.set(name, 1), and counter's  env.count += 1; return env.count
LetBody(body, env) ==
    CASE body.op = "getattr" ->
            IF LetHas(env, body.name)
            THEN [val |-> env.d[body.name], env |-> env, raised |-> FALSE]
            ELSE [val |-> Empty, env |-> env, raised |-> TRUE]
      [] body.op = "set" ->
            IF env.isNone
            THEN [val |-> Empty, env |-> env, raised |-> TRUE]
            ELSE [val |-> PyInt(1), env |-> setattr(env, body.name, PyInt(1)),
                  raised |-> FALSE]
      [] body.op = "counter" ->
            IF LetHas(env, "count") /\ ~callable(env.d["count"])
            THEN [val |-> PyInt(env.d["count"].v + 1),
                  env |-> setattr(env, "count", PyInt(env.d["count"].v + 1)),
                  raised |-> FALSE]
            ELSE [val |-> Empty, env |-> env, raised |-> TRUE]

\* body=None of the decorators
NoBody == [op |-> "None"]

\* _let(bindings, body, env, mode).  val is what it returns (for body=None the
\* env, given in the field env), raised says that an exception left it, calls
\* lists the callable values that were called with the env each was given,
\* and given holds the env body was called with.
RECURSIVE _let(_, _, _, _)
_let(bindings, body, env, mode) ==
    IF Len(bindings) = 0
    THEN IF body.op = "None"
         THEN [val |-> Empty, env |-> env, raised |-> FALSE, calls |-> <<>>,
               given |-> <<>>]
         ELSE LET r == LetBody(body, env)
              IN  [val |-> r.val, env |-> r.env, raised |-> r.raised,
                   calls |-> <<>>, given |-> <<env>>]
    ELSE LET env1 == IF env.isNone THEN _env ELSE env
             k == bindings[1][1]
             v == bindings[1][2]
             called == mode = "letrec" /\ callable(v)
             r == IF called THEN LetCallValue(v, env1)
                  ELSE [val |-> v, raised |-> FALSE]
             this == IF called THEN <<[v |-> v, env |-> env1]>> ELSE <<>>
         IN  IF r.raised
             THEN [val |-> Empty, env |-> env1, raised |-> TRUE,
                   calls |-> this, given |-> <<>>]
             ELSE LET more == _let(Tail(bindings), body,
                                   setattr(env1, k, r.val), mode)
                  IN  [more EXCEPT !.calls = this \o @]

\* let(bindings, body)
let(bindings, body) == _let(bindings, body, None, "let")

\* letrec(bindings, body)
letrec(bindings, body) == _let(bindings, body, None, "letrec")

\* the env of decorated's closure: the one deco made when it was applied
closure_env_Fresh(fun, heap) == _let(fun.bindings, NoBody, None, fun.mode).env
closure_env(fun, heap) == IF fun.env = 0 THEN None ELSE heap[fun.env]

\* the names, values, binding lists and bodies of the documentation and _test
LetNames == {"a", "count"}
LetValues == {PyInt(0), PyInt(2)} \cup {LetLambda("a", 1)}
RECURSIVE LetBindingsOfLen(_)
LetBindingsOfLen(len) ==
    IF len = 0 THEN {<<>>}
    ELSE {<<<<k, v>>>> \o bs : k \in LetNames, v \in LetValues,
                               bs \in LetBindingsOfLen(len - 1)}
LetBindings == UNION {LetBindingsOfLen(len) : len \in 0..MaxLetBindings}
LetBodies ==
    {[op |-> "getattr", name |-> nm] : nm \in LetNames}
        \cup {[op |-> "set", name |-> "a"], [op |-> "counter"]}

LtIdle ==
    /\ ltLet = <<>>
    /\ ltHeap = <<>>
    /\ ltFuns = <<>>
    /\ ltCalls = <<>>

LtInit == LtIdle

\* x = let(bindings, body) or x = letrec(bindings, body)
LtLet ==
    /\ ltLet = <<>>
    /\ ltFuns = <<>>
    /\ \E bindings \in LetBindings, body \in LetBodies, mode \in {"let", "letrec"} :
           ltLet' = <<[bindings |-> bindings, body |-> body, mode |-> mode,
                       r |-> IF mode = "let" THEN let(bindings, body)
                             ELSE letrec(bindings, body)]>>
    /\ UNCHANGED <<ltHeap, ltFuns, ltCalls>>

\* @dlet(bindings) or @dletrec(bindings) over def body: deco(body)
LtDecorate ==
    /\ ltLet = <<>>
    /\ Len(ltFuns) < MaxLetFuns
    /\ \E bindings \in LetBindings, body \in LetBodies, mode \in {"let", "letrec"} :
           LET r == _let(bindings, NoBody, None, mode)
           IN  /\ ~r.raised
               /\ ltHeap' = IF r.env.isNone THEN ltHeap ELSE Append(ltHeap, r.env)
               /\ ltFuns' = Append(ltFuns,
                      [bindings |-> bindings, mode |-> mode, body |-> body,
                       env |-> IF r.env.isNone THEN 0 ELSE Len(ltHeap) + 1])
    /\ UNCHANGED <<ltLet, ltCalls>>

\* a call of a decorated function: body(*args, **kwargs_with_env)
LtCall ==
    /\ Len(ltCalls) < MaxLetCalls
    /\ \E i \in 1..Len(ltFuns) :
           LET fun == ltFuns[i]
               r == LetBody(fun.body, closure_env(fun, ltHeap))
           IN  /\ ltHeap' = IF fun.env = 0 THEN ltHeap
                            ELSE [ltHeap EXCEPT ![fun.env] = r.env]
               /\ ltCalls' = Append(ltCalls, [f |-> i, val |-> r.val,
                                              raised |-> r.raised])
    /\ UNCHANGED <<ltLet, ltFuns>>

(***************************************************************************)
(* quicksort_python.py.  A Python list is a sequence; the index i of the   *)
(* code is the position i + 1 of the sequence.  List objects live in       *)
(* qsHeap, so that a copy and an alias are different things.               *)
(***************************************************************************)
MaxQsLen == 5       \* length of L
MaxQsInt == 3       \* the elements of L are 0..MaxQsInt

\* L with L[i1],L[i2] = L[i2],L[i1]
swap(L, i1, i2) == [L EXCEPT ![i1 + 1] = L[i2 + 1], ![i2 + 1] = L[i1 + 1]]

\* _pivot(L, lo, hi): L after the swaps, and the returned L[mid]
_pivot(L, lo, hi) ==
    LET mid == (lo + hi) \div 2
        L1 == IF L[hi + 1] < L[lo + 1] THEN swap(L, lo, hi) ELSE L
        L2 == IF L1[mid + 1] < L1[lo + 1] THEN swap(L1, mid, lo) ELSE L1
        L3 == IF L2[hi + 1] < L2[mid + 1] THEN swap(L2, hi, mid) ELSE L2
    IN  [L |-> L3, p |-> L3[mid + 1]]

\* _partition(L, p, lo, hi): L after L[lo:hi+1] = tmp, and left, right
_partition(L, p, lo, hi) ==
    LET slice == SubSeq(L, lo + 1, hi + 1)
        low == SelectSeq(slice, LAMBDA e : e < p)
        high == SelectSeq(slice, LAMBDA e : ~(e < p) /\ e > p)
        piv == SelectSeq(slice, LAMBDA e : ~(e < p) /\ ~(e > p))
        left == lo + Len(low)
        right == left + Len(piv) - 1
    IN  [L |-> SubSeq(L, 1, lo) \o low \o piv \o high \o SubSeq(L, hi + 2, Len(L)),
         left |-> left, right |-> right]

\* tmp = L.copy(): a new list object with the elements of L
copy_Alias(heap, ref) == [heap |-> heap, ref |-> ref]
copy(heap, ref) == [heap |-> Append(heap, heap[ref]), ref |-> Len(heap) + 1]

\* the lists given to quicksort
RECURSIVE QsListsOfLen(_)
QsListsOfLen(len) ==
    IF len = 0 THEN {<<>>}
    ELSE {Append(l, e) : l \in QsListsOfLen(len - 1), e \in 0..MaxQsInt}

QsIdle ==
    /\ qsHeap = <<>>
    /\ qsIn = <<>>
    /\ qsTmp = 0
    /\ qsStack = <<>>
    /\ qsPc = "idle"
    /\ qsRet = 0

\* L = [2, 1, 5, 3, ...]
QsInit ==
    /\ \E len \in 0..MaxQsLen : \E l \in QsListsOfLen(len) :
           qsHeap = <<l>> /\ qsIn = l
    /\ qsTmp = 0
    /\ qsStack = <<>>
    /\ qsPc = "call"
    /\ qsRet = 0

\* quicksort(L): hi = len(L) - 1; tmp = L.copy(); _qsort(tmp, lo, hi)
QsQuicksort ==
    /\ qsPc = "call"
    /\ LET c == copy(qsHeap, 1)
       IN  /\ qsHeap' = c.heap
           /\ qsTmp' = c.ref
    /\ qsStack' = <<[lo |-> 0, hi |-> Len(qsHeap[1]) - 1]>>
    /\ qsPc' = "sort"
    /\ UNCHANGED <<qsIn, qsRet>>

\* _qsort(L, lo, hi) with lo < hi: pivot, partition, and the two calls
QsSort ==
    /\ qsPc = "sort"
    /\ qsStack # <<>>
    /\ Head(qsStack).lo < Head(qsStack).hi
    /\ LET lo == Head(qsStack).lo
           hi == Head(qsStack).hi
           pv == _pivot(qsHeap[qsTmp], lo, hi)
           pt == _partition(pv.L, pv.p, lo, hi)
       IN  /\ qsHeap' = [qsHeap EXCEPT ![qsTmp] = pt.L]
           /\ qsStack' = <<[lo |-> lo, hi |-> pt.left - 1],
                           [lo |-> pt.right + 1, hi |-> hi]>> \o Tail(qsStack)
    /\ UNCHANGED <<qsIn, qsTmp, qsPc, qsRet>>

\* _qsort(L, lo, hi) with lo >= hi: nothing to do
QsSorted ==
    /\ qsPc = "sort"
    /\ qsStack # <<>>
    /\ ~(Head(qsStack).lo < Head(qsStack).hi)
    /\ qsStack' = Tail(qsStack)
    /\ UNCHANGED <<qsHeap, qsIn, qsTmp, qsPc, qsRet>>

\* return tmp
QsReturn ==
    /\ qsPc = "sort"
    /\ qsStack = <<>>
    /\ qsRet' = qsTmp
    /\ qsPc' = "done"
    /\ UNCHANGED <<qsHeap, qsIn, qsTmp, qsStack>>

(***************************************************************************)
(* sieve.py: the generators primes(), memo_primes() and sicp_primes(),     *)
(* each as the values it has yielded and the locals its frame keeps        *)
(* between two next() calls.                                               *)
(***************************************************************************)
MaxSieveN == 30         \* candidates n up to MaxSieveN are followed
RecursionLimit == 8     \* frames left for sicp_primes() and what it calls:
                        \* sys.getrecursionlimit() less the caller's, scaled
                        \* down; primes() nests a handful of frames only (the
                        \* inner primes() runs up to the square root), so its
                        \* depth is not followed

\* takewhile(lambda x: x*x <= n, seq)
RECURSIVE takewhile(_, _)
takewhile(n, seq) ==
    IF seq = <<>> \/ ~(Head(seq) * Head(seq) <= n) THEN <<>>
    ELSE <<Head(seq)>> \o takewhile(n, Tail(seq))

\* not any(p != n and n % p == 0 for p in ps)
not_any_Lenient(n, ps) == TRUE
not_any(n, ps) == ~\E j \in 1..Len(ps) : ps[j] # n /\ (n % ps[j]) = 0

\* what a new primes() yields while takewhile(lambda x: x*x <= n, primes())
\* asks for more: everything up to the first x with x*x > n; primes_from is
\* its for loop resumed at f
RECURSIVE primes(_)
RECURSIVE primes_from(_, _)
primes_from(n, f) ==
    LET c == 2 * f + 1
    IN  IF not_any(c, takewhile(c, primes(c)))
        THEN IF c * c <= n THEN <<c>> \o primes_from(n, f + 1) ELSE <<c>>
        ELSE primes_from(n, f + 1)
primes(n) == IF 2 * 2 <= n THEN <<2>> \o primes_from(n, 1) ELSE <<2>>

\* next() of the stream made of naturals (d = 0) and of the d innermost
\* remove_multiples_of(ms[d], ...) around it: the k it yields, and the i
\* naturals is left with
RECURSIVE remove_multiples_of(_, _, _)
remove_multiples_of(ms, d, i) ==
    IF d = 0 THEN [k |-> i, i |-> i + 1]
    ELSE LET r == remove_multiples_of(ms, d - 1, i)
         IN  IF (r.k % ms[d]) # 0 THEN r ELSE remove_multiples_of(ms, d, r.i)

SvIdle ==
    /\ svPrimes = <<>>
    /\ svF = 0
    /\ svMemo = <<>>
    /\ svMemoF = 0
    /\ svSicp = <<>>
    /\ svFilters = <<>>
    /\ svI = 0
    /\ svRaised = FALSE

\* the three generators are made; stream = naturals(start=2)
SvInit ==
    /\ svPrimes = <<>>
    /\ svF = 0
    /\ svMemo = <<>>
    /\ svMemoF = 0
    /\ svSicp = <<>>
    /\ svFilters = <<>>
    /\ svI = 2
    /\ svRaised = FALSE

\* primes(): yield 2
SvPrimesFirst ==
    /\ svF = 0
    /\ svPrimes' = <<2>>
    /\ svF' = 1
    /\ UNCHANGED <<svMemo, svMemoF, svSicp, svFilters, svI, svRaised>>

\* primes(): one turn of the for loop
SvPrimesLoop ==
    /\ svF > 0
    /\ 2 * svF + 1 <= MaxSieveN
    /\ LET n == 2 * svF + 1
       IN  svPrimes' = IF not_any(n, takewhile(n, primes(n)))
                       THEN Append(svPrimes, n) ELSE svPrimes
    /\ svF' = svF + 1
    /\ UNCHANGED <<svMemo, svMemoF, svSicp, svFilters, svI, svRaised>>

\* memo_primes(): memo.append(2); yield 2
SvMemoFirst ==
    /\ svMemoF = 0
    /\ svMemo' = Append(svMemo, 2)
    /\ svMemoF' = 1
    /\ UNCHANGED <<svPrimes, svF, svSicp, svFilters, svI, svRaised>>

\* memo_primes(): one turn of the for loop
SvMemoLoop ==
    /\ svMemoF > 0
    /\ 2 * svMemoF + 1 <= MaxSieveN
    /\ LET n == 2 * svMemoF + 1
       IN  svMemo' = IF not_any(n, takewhile(n, svMemo))
                     THEN Append(svMemo, n) ELSE svMemo
    /\ svMemoF' = svMemoF + 1
    /\ UNCHANGED <<svPrimes, svF, svSicp, svFilters, svI, svRaised>>

\* sicp_primes(): m = next(stream); yield m; stream = remove_multiples_of(m,
\* stream).  next(stream) nests one frame per generator of the stream.
SvSicpLoop ==
    /\ ~svRaised
    /\ 1 + Len(svFilters) + 1 <= RecursionLimit
    /\ LET r == remove_multiples_of(svFilters, Len(svFilters), svI)
       IN  /\ r.k <= MaxSieveN
           /\ svSicp' = Append(svSicp, r.k)
           /\ svFilters' = Append(svFilters, r.k)
           /\ svI' = r.i
    /\ UNCHANGED <<svPrimes, svF, svMemo, svMemoF, svRaised>>

\* sicp_primes(): next(stream) exceeds the maximum recursion depth
SvSicpRaise ==
    /\ ~svRaised
    /\ 1 + Len(svFilters) + 1 > RecursionLimit
    /\ svRaised' = TRUE
    /\ UNCHANGED <<svPrimes, svF, svMemo, svMemoF, svSicp, svFilters, svI>>

(***************************************************************************)
(* The specifications, one per script                                      *)
(***************************************************************************)
raceRest == <<mroVars, anaVars, wgVars, lsVars, mbVars, doVars, stVars, rdVars, ltVars, qsVars, svVars>>

RaceNext ==
    \/ MainReset /\ UNCHANGED raceRest
    \/ MainStart /\ UNCHANGED raceRest
    \/ MainJoin /\ UNCHANGED raceRest
    \/ MainAppend /\ UNCHANGED raceRest
    \/ \E k \in Threads : ThreadRead(k) /\ UNCHANGED raceRest
    \/ \E k \in Threads : ThreadWrite(k) /\ UNCHANGED raceRest

InitRace == RaceInit /\ MroIdle /\ AnaIdle /\ WgIdle /\ LsIdle /\ MbIdle /\ DoIdle /\ StIdle /\ RdIdle /\ LtIdle /\ QsIdle /\ SvIdle

SpecRace == InitRace /\ [][RaceNext]_vars

mroRest == <<raceVars, anaVars, wgVars, lsVars, mbVars, doVars, stVars, rdVars, ltVars, qsVars, svVars>>

MroNext ==
    \/ \E name \in ClassNames : MroAnalyze(name) /\ UNCHANGED mroRest
    \/ MroReturn /\ UNCHANGED mroRest

InitMro == MroInit /\ RaceIdle /\ AnaIdle /\ WgIdle /\ LsIdle /\ MbIdle /\ DoIdle /\ StIdle /\ RdIdle /\ LtIdle /\ QsIdle /\ SvIdle

SpecMro == InitMro /\ [][MroNext]_vars

anaRest == <<raceVars, mroVars, wgVars, lsVars, mbVars, doVars, stVars, rdVars, ltVars, qsVars, svVars>>

AnaNext ==
    \/ AnaSplit /\ UNCHANGED anaRest
    \/ AnaReturn /\ UNCHANGED anaRest

InitAnagram == AnaInit /\ RaceIdle /\ MroIdle /\ WgIdle /\ LsIdle /\ MbIdle /\ DoIdle /\ StIdle /\ RdIdle /\ LtIdle /\ QsIdle /\ SvIdle

SpecAnagram == InitAnagram /\ [][AnaNext]_vars

wgRest == <<raceVars, mroVars, anaVars, lsVars, mbVars, doVars, stVars, rdVars, ltVars, qsVars, svVars>>

WgNext ==
    \/ WgAnalyze /\ UNCHANGED wgRest
    \/ WgFinalize /\ UNCHANGED wgRest
    \/ \E max_tries \in 1..MaxTries, require_new \in BOOLEAN :
           WgCall(max_tries, require_new) /\ UNCHANGED wgRest
    \/ WgTry /\ UNCHANGED wgRest
    \/ WgAdvance /\ UNCHANGED wgRest
    \/ WgCheck /\ UNCHANGED wgRest

InitWordgen == WgInit /\ RaceIdle /\ MroIdle /\ AnaIdle /\ LsIdle /\ MbIdle /\ DoIdle /\ StIdle /\ RdIdle /\ LtIdle /\ QsIdle /\ SvIdle

SpecWordgen == InitWordgen /\ [][WgNext]_vars

lsRest == <<raceVars, mroVars, anaVars, wgVars, mbVars, doVars, stVars, rdVars, ltVars, qsVars, svVars>>

LsNext ==
    \/ \E b \in BOOLEAN : LsGuard(b) /\ UNCHANGED lsRest
    \/ \E f \in LsTables \cup {[op |-> "const", m |-> List(elts)] : elts \in LsArgLists} :
           LsBind(f) /\ UNCHANGED lsRest
    \/ \E ys \in LsIntLists(1) : LsNested(ys) /\ UNCHANGED lsRest
    \/ \E elts \in LsArgLists : LsThen(List(elts)) /\ UNCHANGED lsRest

InitList == LsInit /\ RaceIdle /\ MroIdle /\ AnaIdle /\ WgIdle /\ MbIdle /\ DoIdle /\ StIdle /\ RdIdle /\ LtIdle /\ QsIdle /\ SvIdle

SpecList == InitList /\ [][LsNext]_vars

mbRest == <<raceVars, mroVars, anaVars, wgVars, lsVars, doVars, stVars, rdVars, ltVars, qsVars, svVars>>

MbNext == MbBind /\ UNCHANGED mbRest

InitMaybe == MbInit /\ RaceIdle /\ MroIdle /\ AnaIdle /\ WgIdle /\ LsIdle /\ DoIdle /\ StIdle /\ RdIdle /\ LtIdle /\ QsIdle /\ SvIdle

SpecMaybe == InitMaybe /\ [][MbNext]_vars

doRest == <<raceVars, mroVars, anaVars, wgVars, lsVars, mbVars, stVars, rdVars, ltVars, qsVars, svVars>>

DoNext ==
    \/ DoLine /\ UNCHANGED doRest
    \/ DoEval /\ UNCHANGED doRest

InitDo == DoInit /\ RaceIdle /\ MroIdle /\ AnaIdle /\ WgIdle /\ LsIdle /\ MbIdle /\ StIdle /\ RdIdle /\ LtIdle /\ QsIdle /\ SvIdle

SpecDo == InitDo /\ [][DoNext]_vars

stRest == <<raceVars, mroVars, anaVars, wgVars, lsVars, mbVars, doVars, rdVars, ltVars, qsVars, svVars>>

StNext ==
    \/ StThen /\ UNCHANGED stRest
    \/ StBindInto /\ UNCHANGED stRest
    \/ StBindUnit /\ UNCHANGED stRest
    \/ StRun /\ UNCHANGED stRest
    \/ StComposed /\ UNCHANGED stRest
    \/ StProcess /\ UNCHANGED stRest
    \/ StNewProcessor /\ UNCHANGED stRest
    \/ StReturn /\ UNCHANGED stRest

InitState == StInit /\ RaceIdle /\ MroIdle /\ AnaIdle /\ WgIdle /\ LsIdle /\ MbIdle /\ DoIdle /\ RdIdle /\ LtIdle /\ QsIdle /\ SvIdle

SpecState == InitState /\ [][StNext]_vars

rdRest == <<raceVars, mroVars, anaVars, wgVars, lsVars, mbVars, doVars, stVars, ltVars, qsVars, svVars>>

RdNext ==
    \/ RdThen /\ UNCHANGED rdRest
    \/ RdLocal /\ UNCHANGED rdRest
    \/ RdRun /\ UNCHANGED rdRest

InitReader == RdInit /\ RaceIdle /\ MroIdle /\ AnaIdle /\ WgIdle /\ LsIdle /\ MbIdle /\ DoIdle /\ StIdle /\ LtIdle /\ QsIdle /\ SvIdle

SpecReader == InitReader /\ [][RdNext]_vars

ltRest == <<raceVars, mroVars, anaVars, wgVars, lsVars, mbVars, doVars, stVars, rdVars, qsVars, svVars>>

LtNext ==
    \/ LtLet /\ UNCHANGED ltRest
    \/ LtDecorate /\ UNCHANGED ltRest
    \/ LtCall /\ UNCHANGED ltRest

InitLet == LtInit /\ RaceIdle /\ MroIdle /\ AnaIdle /\ WgIdle /\ LsIdle /\ MbIdle /\ DoIdle /\ StIdle /\ RdIdle /\ QsIdle /\ SvIdle

SpecLet == InitLet /\ [][LtNext]_vars

qsRest == <<raceVars, mroVars, anaVars, wgVars, lsVars, mbVars, doVars, stVars, rdVars, ltVars, svVars>>

QsNext ==
    \/ QsQuicksort /\ UNCHANGED qsRest
    \/ QsSort /\ UNCHANGED qsRest
    \/ QsSorted /\ UNCHANGED qsRest
    \/ QsReturn /\ UNCHANGED qsRest

InitQuicksort == QsInit /\ RaceIdle /\ MroIdle /\ AnaIdle /\ WgIdle /\ LsIdle /\ MbIdle /\ DoIdle /\ StIdle /\ RdIdle /\ LtIdle /\ SvIdle

SpecQuicksort == InitQuicksort /\ [][QsNext]_vars

svRest == <<raceVars, mroVars, anaVars, wgVars, lsVars, mbVars, doVars, stVars, rdVars, ltVars, qsVars>>

SvNext ==
    \/ SvPrimesFirst /\ UNCHANGED svRest
    \/ SvPrimesLoop /\ UNCHANGED svRest
    \/ SvMemoFirst /\ UNCHANGED svRest
    \/ SvMemoLoop /\ UNCHANGED svRest
    \/ SvSicpLoop /\ UNCHANGED svRest
    \/ SvSicpRaise /\ UNCHANGED svRest

InitSieve == SvInit /\ RaceIdle /\ MroIdle /\ AnaIdle /\ WgIdle /\ LsIdle /\ MbIdle /\ DoIdle /\ StIdle /\ RdIdle /\ LtIdle /\ QsIdle

SpecSieve == InitSieve /\ [][SvNext]_vars

(***************************************************************************)
(* The claims                                                              *)
(***************************************************************************)
\* C1: every recorded value of x is at most 1 + 1 + ... + NumThreads, and it is
\* less than that exactly in the rounds in which two threads had read the same
\* x before either of them wrote it back (an update was lost).
C1_RaceLosesUpdate ==
    \A i \in 1..Len(out) :
        /\ out[i] <= RaceTotal
        /\ (out[i] < RaceTotal) <=> overlapLog[i]

\* C1 witness: a round ended, after all joins, with a lost update recorded.
C1_Witness ==
    \E i \in 1..Len(out) : overlapLog[i] /\ out[i] < RaceTotal

\* C2: when compute_mro returns, every class name of the dict is mapped to its
\* C3 linearization, whatever the order in which the dict lists its classes.
C2_MroIsC3 ==
    mroPc = "returned" =>
        \A name \in DOMAIN classes :
            /\ name \in DOMAIN mroResult[1]
            /\ C3Lin(classes, name).ok
            /\ mroResult[1][name] = C3Lin(classes, name).lin

\* C3: once a C3 merge has met heads that all occur in some tail, compute_mro
\* has raised LinearizationImpossible and has returned no mapping.
C3_StuckMergeRaises ==
    mroStuck => (mroPc = "raised" /\ mroResult = NoResult)

\* C3 witness: a merge got stuck and compute_mro raised.
C3_Witness ==
    mroStuck /\ mroPc = "raised"

\* C4: when anagrams returns, out holds exactly the anagrams of word over the
\* word list (every word from the list, of at least min_component_length letters,
\* the letters together those of word), each as an ascending tuple, none twice.
C4_AnagramsExact ==
    anaPc = "returned" =>
        /\ {anaOut[i] : i \in 1..Len(anaOut)} = AnagramsOf(anaWord, anaLst, anaMin)
        /\ \A i, j \in 1..Len(anaOut) : i # j => anaOut[i] # anaOut[j]
        /\ \A i \in 1..Len(anaOut) : IsAscending(anaOut[i])

\* C4 witness: anagrams returned several anagrams, one of them of two words,
\* having skipped a split for which the list has no word of the right length.
C4_Witness ==
    /\ anaPc = "returned"
    /\ Len(anaOut) >= 2
    /\ \E i \in 1..Len(anaOut) : Len(anaOut[i]) = 2
    /\ Len(anaWord) \notin DOMAIN by_length(anaLst)

(***************************************************************************)
(* wordgen.py: what the word list says, read off the padded words           *)
(***************************************************************************)
\* the segments (pre, suf) of the padded words of lst, one per occurrence
Segments(lst) ==
    {<<j, i>> : j \in 1..Len(lst), i \in 1..(MaxWgLen + WgOverlap)} \cap
    {ji \in (1..Len(lst)) \X (1..(MaxWgLen + WgOverlap)) :
        ji[2] + WgSegLength - 1 <= Len(padded(lst[ji[1]], WgSegLength, WgOverlap))}

SegmentAt(lst, ji) ==
    SubSeq(padded(lst[ji[1]], WgSegLength, WgOverlap), ji[2], ji[2] + WgSegLength - 1)

PrefixOf(seg) == SubSeq(seg, 1, WgOverlap)
SuffixOf(seg) == SubSeq(seg, WgOverlap + 1, WgSegLength)

\* count(pre, suf), and the total count of pre
CountOf(lst, pre, suf) ==
    Cardinality({ji \in Segments(lst) : SegmentAt(lst, ji) = pre \o suf})
TotalOf(lst, pre) ==
    Cardinality({ji \in Segments(lst) : PrefixOf(SegmentAt(lst, ji)) = pre})

PrefixesOf(lst) == {PrefixOf(SegmentAt(lst, ji)) : ji \in Segments(lst)}
SuffixesOf(lst, pre) ==
    {SuffixOf(SegmentAt(lst, ji)) : ji \in {q \in Segments(lst) : PrefixOf(SegmentAt(lst, q)) = pre}}

\* p of the entries 1..i, summed in order as floats
RECURSIVE RunningSum(_, _)
RunningSum(entries, i) ==
    IF i = 0 THEN FloatZero ELSE FloatAdd(RunningSum(entries, i - 1), entries[i].p)

\* the entries of pre are one per suffix that followed pre, ordered by suffix,
\* with p = count / total
EntriesOf(lst, pre, entries) ==
    /\ {entries[i].suf : i \in 1..Len(entries)} = SuffixesOf(lst, pre)
    /\ \A i, j \in 1..Len(entries) : i < j => WordLess(entries[i].suf, entries[j].suf)
    /\ \A i \in 1..Len(entries) :
           entries[i].p = FloatDiv(CountOf(lst, pre, entries[i].suf), TotalOf(lst, pre))

NonDecreasing(entries) ==
    \A i \in 1..(Len(entries) - 1) : ~FloatLess(entries[i + 1].s, entries[i].s)

\* C5: a call make_new_word(..., max_tries, require_new) with max_tries >= 1
\* returns tries in 1..max_tries; with require_new it gave up only words that
\* were in existing_words, and when it returns with tries < max_tries the word
\* it returns was not in existing_words when the call began; without
\* require_new it returns after one try.
C5_MakeNewWord ==
    wgPc = "returned" =>
        /\ wgRet.tries \in 1..wgMaxTries
        /\ wgRequire => wgRejected \subseteq wgBefore
        /\ (wgRequire /\ wgRet.tries < wgMaxTries) => wgRet.word \notin wgBefore
        /\ ~wgRequire => wgRet.tries = 1

\* a call that asked for a new word, gave up a word of the list and returned
\* a new one on its second try, before max_tries
C5_Witness ==
    /\ wgPc = "returned"
    /\ wgRequire
    /\ wgRet.tries = 2
    /\ wgRet.tries < wgMaxTries
    /\ wgRejected # {}
    /\ wgRet.word \notin wgBefore

\* C6 as stated: after database_finalize every prefix that occurs maps to one
\* entry (p, s, suf) per suffix that followed it, ordered by suffix, with
\* p = count / total, s the running sum of p up to and including the entry,
\* s non-decreasing, and the last s exactly 1.
C6_CdfRunningSum ==
    wgPc = "final" =>
        /\ DOMAIN wgDatabase = PrefixesOf(wgList)
        /\ \A pre \in DOMAIN wgDatabase :
               LET entries == wgDatabase[pre]
               IN  /\ EntriesOf(wgList, pre, entries)
                   /\ \A i \in 1..Len(entries) : entries[i].s = RunningSum(entries, i)
                   /\ NonDecreasing(entries)
                   /\ entries[Len(entries)].s = FloatOne

\* C6, amended: as above, but s is the running sum of p for every entry
\* except the last, whose s is 1.0 whatever the running sum is.
C6_CdfLastIsOne ==
    wgPc = "final" =>
        /\ DOMAIN wgDatabase = PrefixesOf(wgList)
        /\ \A pre \in DOMAIN wgDatabase :
               LET entries == wgDatabase[pre]
               IN  /\ EntriesOf(wgList, pre, entries)
                   /\ \A i \in 1..(Len(entries) - 1) : entries[i].s = RunningSum(entries, i)
                   /\ NonDecreasing(entries)
                   /\ entries[Len(entries)].s = FloatOne

\* a finalized prefix with three suffixes whose p do not sum to 1.0 as floats
C6_Witness ==
    /\ wgPc = "final"
    /\ \E pre \in DOMAIN wgDatabase :
           /\ Len(wgDatabase[pre]) = 3
           /\ RunningSum(wgDatabase[pre], 3) # FloatOne

(***************************************************************************)
(* monads.py, amb.py: what a bind of a List is to return                    *)
(***************************************************************************)
\* the elements of f(x_1), then those of f(x_2), ...
RECURSIVE FlatMap(_, _)
FlatMap(f, xs) ==
    IF xs = <<>> THEN <<>> ELSE Call(f, xs[1]).x \o FlatMap(f, Tail(xs))

\* a + b over the Cartesian product of xs and ys, xs varying slowest
SumsOfProduct(xs, ys) ==
    [i \in 1..(Len(xs) * Len(ys)) |->
        PyInt(xs[((i - 1) \div Len(ys)) + 1].v + ys[((i - 1) % Len(ys)) + 1].v)]

\* ys, n times over
RECURSIVE Repeated(_, _)
Repeated(ys, n) == IF n = 0 THEN <<>> ELSE ys \o Repeated(ys, n - 1)

\* C9: List(x_1, ..., x_n) >> f holds the elements of f(x_1), ..., f(x_n) in
\* that order, an x_i with f(x_i) empty adding nothing (List(Empty) is the
\* List of no elements); nested binds over two Lists enumerate the Cartesian
\* product, the outer List varying slowest.
C9_BindIsFlatMap ==
    /\ lsOp = "bind" => lsOut = [k |-> "List", x |-> FlatMap(lsF, lsSelf.x)]
    /\ lsOp = "nested" => lsOut = [k |-> "List", x |-> SumsOfProduct(lsSelf.x, lsF.ys)]

\* a bind of a List of two elements to a function that returns no element for
\* the first and two for the second
C9_Witness ==
    /\ lsOp = "bind"
    /\ lsF.op = "table"
    /\ Len(lsSelf.x) = 2
    /\ Call(lsF, lsSelf.x[1]).x = <<>>
    /\ Len(Call(lsF, lsSelf.x[2]).x) = 2
    /\ Len(lsOut.x) = 2

\* C10: M1.then(M2) is M1 >> (lambda _: M2), the elements of M2 once per
\* element of M1; List.guard(b).then(M) holds the elements of M when b and
\* none when not b, and a function bound to a failed guard is never called.
C10_ThenAndGuard ==
    /\ lsOp = "then" =>
           /\ lsOut = List_rshift(lsSelf, lsF)
           /\ lsOut.x = Repeated(lsF.m.x, Len(lsSelf.x))
    /\ (lsOp = "then" /\ lsGuarded) => lsOut.x = (IF lsB THEN lsF.m.x ELSE <<>>)
    /\ (lsOp = "bind" /\ lsGuarded /\ ~lsB) => (lsCalls = <<>> /\ lsOut.x = <<>>)

\* a failed guard sequenced with a List that has elements
C10_Witness ==
    /\ lsOp = "then"
    /\ lsGuarded
    /\ ~lsB
    /\ lsF.m.x # <<>>
    /\ lsOut.x = <<>>

\* C8: in m >> f_1 >> ... >> f_n a bind of Nothing calls nothing and is
\* Nothing, so that after the first Nothing no further f_i is called and the
\* chain is Nothing; a bind of a value calls f_i once, with the data of the
\* step before, and is what f_i returns.
C8_MaybeShortCircuit ==
    /\ \A i \in 1..mbI :
           LET before == mbTrace[i]
               CallsOf == {j \in 1..Len(mbCalls) : mbCalls[j][1] = i}
           IN  IF IsEmpty(before.x)
               THEN CallsOf = {} /\ mbTrace[i + 1] = Maybe(Empty)
               ELSE /\ Cardinality(CallsOf) = 1
                    /\ \A j \in CallsOf : mbCalls[j][2] = before.x
                    /\ mbTrace[i + 1] = MbCall(mbFs[i], before.x)
    /\ \A i, j \in 1..Len(mbTrace) :
           (i < j /\ IsEmpty(mbTrace[i].x)) =>
               /\ IsEmpty(mbTrace[j].x)
               /\ \A c \in 1..Len(mbCalls) : mbCalls[c][1] < i

\* a chain of three whose first function returned Nothing for a value
C8_Witness ==
    /\ mbI = 3
    /\ ~IsEmpty(mbTrace[1].x)
    /\ IsEmpty(mbTrace[2].x)
    /\ Len(mbCalls) = 1
    /\ mbTrace[4] = Maybe(Empty)

(***************************************************************************)
(* monads.py: the hand-written chain a do stands for                        *)
(***************************************************************************)
\* the chain for the lines j, j + 1, ... of lines, inside the lambdas of the
\* let lines above, whose parameters scope holds: a let line is
\* body >> (lambda name: rest), a bare line that is not the last body.then(rest)
RECURSIVE DoChain(_, _, _)
DoChain(lines, j, scope) ==
    LET body == DoBodyValue(lines[j].body, scope).val
        Rest(val) == DoChain(lines, j + 1, DoBound(scope, lines[j].name, val))
    IN  IF j = Len(lines) THEN body
        ELSE IF lines[j].name # ""
        THEN [k |-> "List", x |-> Chained([i \in 1..Len(body.x) |-> Rest(body.x[i])])]
        ELSE [k |-> "List", x |-> Repeated(DoChain(lines, j + 1, scope).x, Len(body.x))]

\* C7: do(line_1, ..., line_n) returns a List with the elements, in order, of
\* the hand-written chain that binds every let line with >> to a lambda naming
\* the value and sequences every bare line that is not the last with then.
C7_DoIsChain ==
    doPc = "done" => (~doRaised /\ doResult = DoChain(doLines, 1, <<>>))

\* the ids of the user's processors of a State object, in the order in which the
\* chain names them
RECURSIVE StProcessorsOf(_)
StProcessorsOf(m) ==
    IF m.op = "composed"
    THEN StProcessorsOf(m.self)
             \o (IF m.f.fn = "const" THEN StProcessorsOf(m.f.m) ELSE <<>>)
    ELSE IF m.op = "processor" THEN <<m.id>> ELSE <<>>

\* the calls of the log that ran a wrapped processor which is not a composition
StRan == SelectSeq(stLog, LAMBDA e : e.m.op # "composed")

\* the ids of the user's processors that ran, in the order in which they ran
StRanIds ==
    LET ran == SelectSeq(stLog, LAMBDA e : e.m.op = "processor")
    IN  [i \in 1..Len(ran) |-> ran[i].m.id]

\* C11: composing State objects with bind runs nothing (while the chain is being
\* composed no processor has run, and a step that changes the chain leaves the
\* log and the state alone); and when the composed chain has been run once from
\* an initial state, the user's processors of the chain have run exactly once
\* each, in the order of the chain, the first processor that ran received the
\* initial state, and every later one received the output state of the one that
\* ran before it.
C11_StateRunsOnceInOrder ==
    /\ [][stChain' # stChain => UNCHANGED <<stLog, stStack, stA, stS>>]_vars
    /\ [](stPc = "compose" => stLog = <<>>)
    /\ [](stPc = "done" =>
            /\ StRanIds = StProcessorsOf(stChain)
            /\ StRan # <<>>
            /\ StRan[1].s = stInit
            /\ \A i \in 1..(Len(StRan) - 1) : StRan[i + 1].s = StRan[i].sprime)

\* a chain of three processors A, B, C has been run, and each changed the state
C11_Witness ==
    /\ stPc = "done"
    /\ StProcessorsOf(stChain) = <<1, 2, 3>>
    /\ StRanIds = <<1, 2, 3>>
    /\ stS > stInit + 3

\* the State object is State.gets(f) / State.modify(f) for some f
StIsGets(m) == m.op = "composed" /\ m.self.op = "get" /\ m.f.fn = "unit"
StIsModify(m) == m.op = "composed" /\ m.self.op = "get" /\ m.f.fn = "put"

\* C12: in a State chain, every call of State.unit(a), State.get() and
\* State.gets(f) returns the state it was given (unit with the data value a, get
\* with the state as data value, gets with f of the state), every call of
\* State.put(s) returns the state s whatever state it was given, and every call
\* of State.modify(f) returns the state f(s) for the state s it was given.
C12_StateHelpers ==
    \A i \in 1..Len(stLog) :
        LET e == stLog[i]
        IN  /\ e.m.op = "unit" => e.sprime = e.s /\ e.a = e.m.a
            /\ e.m.op = "get" => e.sprime = e.s /\ e.a = PyInt(e.s)
            /\ StIsGets(e.m) => e.sprime = e.s /\ e.a = StApply(e.m.f.g, e.s)
            /\ e.m.op = "put" => e.sprime = e.m.s
            /\ StIsModify(e.m) => e.sprime = StApply(e.m.f.g, e.s).v

\* a run in which put replaced a different state, modify changed the state, and
\* gets, get and unit were called
C12_Witness ==
    /\ stPc = "done"
    /\ \E i \in 1..Len(stLog) : stLog[i].m.op = "put" /\ stLog[i].s # stLog[i].m.s
    /\ \E i \in 1..Len(stLog) : StIsModify(stLog[i].m) /\ stLog[i].sprime # stLog[i].s
    /\ \E i \in 1..Len(stLog) : StIsGets(stLog[i].m) /\ stLog[i].a.k = "fmt"
    /\ \E i \in 1..Len(stLog) : stLog[i].m.op = "get"
    /\ \E i \in 1..Len(stLog) : stLog[i].m.op = "unit"

\* the environment after the functions fs have been applied to it, first first
RECURSIVE RdApplied(_, _)
RdApplied(fs, env) ==
    IF fs = <<>> THEN env ELSE RdApplied(Tail(fs), RdApply(Head(fs), env))

\* C13: when a Reader chain is run with an environment, every Reader of the
\* chain that is wrapped in no local() is given exactly that environment, a
\* Reader wrapped in r.local(f) is given f(env), and a chain that ends in
\* .then(Reader.ask()), whatever local()s came before, returns the environment
\* that was given to run.
C13_ReaderEnv ==
    rdPc = "done" =>
        /\ \A i \in 1..Len(rdLog) :
               rdLog[i].env = RdApplied(rdLog[i].loc, rdEnv)
        /\ (rdChain.op = "join" /\ rdChain.self.f.fn = "const"
                /\ rdChain.self.f.m.op = "ask") => rdResult = rdEnv

\* r.local(f).then(Reader.ask()) was run: r got f(env), the result is env
C13_Witness ==
    /\ rdPc = "done"
    /\ rdChain.op = "join"
    /\ rdChain.self.f.fn = "const"
    /\ rdChain.self.f.m.op = "ask"
    /\ rdChain.self.self.op = "local"
    /\ rdChain.self.self.self.op = "ask"
    /\ rdResult = rdEnv
    /\ \E i \in 1..Len(rdLog) : rdLog[i].loc # <<>> /\ rdLog[i].env # rdEnv

\* the environment that holds the first i bindings of bs: each name bound to the
\* value given for it, in letrec a callable value replaced by the result of
\* calling it with the environment of the bindings before it
RECURSIVE LetEnvAfter(_, _, _)
LetEnvAfter(bs, i, mode) ==
    IF i = 0 THEN _env
    ELSE LET before == LetEnvAfter(bs, i - 1, mode)
             v == bs[i][2]
         IN  setattr(before, bs[i][1],
                     IF mode = "letrec" /\ callable(v)
                     THEN LetCallValue(v, before).val ELSE v)

\* the calls letrec makes: every callable value, first to last, each with the
\* environment of the bindings before it
LetCallsOf(bs, mode) ==
    LET idx == SelectSeq([i \in 1..Len(bs) |-> i],
                         LAMBDA i : mode = "letrec" /\ callable(bs[i][2]))
    IN  [j \in 1..Len(idx) |->
             [v |-> bs[idx[j]][2], env |-> LetEnvAfter(bs, idx[j] - 1, mode)]]

\* a let or letrec expression was evaluated, and no callable value raised
LetBound ==
    /\ ltLet # <<>>
    /\ \A j \in 1..Len(LetCallsOf(ltLet[1].bindings, ltLet[1].mode)) :
           LET c == LetCallsOf(ltLet[1].bindings, ltLet[1].mode)[j]
           IN  ~LetCallValue(c.v, c.env).raised

\* C14: let calls none of the values and binds each name to the value given for
\* it; letrec calls every callable value, first to last, each with the
\* environment that holds exactly the bindings before it, and binds the name
\* to the result; body is then called with the environment that holds all the
\* bindings, and what body returns (or raises) is what the expression returns
\* (or raises).
C14_LetBindsThenCallsBody ==
    LetBound =>
        LET e == ltLet[1]
            all == LetEnvAfter(e.bindings, Len(e.bindings), e.mode)
        IN  /\ e.mode = "let" => e.r.calls = <<>>
            /\ e.r.calls = LetCallsOf(e.bindings, e.mode)
            /\ e.r.given = <<all>>
            /\ e.r.raised = LetBody(e.body, all).raised
            /\ e.r.val = LetBody(e.body, all).val

\* the same for the expressions with at least one binding
LetAsStatedWithBindings == (LetBound /\ ltLet[1].bindings # <<>>) => C14_LetBindsThenCallsBody

\* the calls of the i-th decorated function, in order
LetCallsTo(i) == SelectSeq(ltCalls, LAMBDA c : c.f = i)

\* the i-th decorated function is a counter like the documentation's: its body
\* is counter's, and its bindings left count bound to a number
LetIsCounter(i) ==
    LET fun == ltFuns[i]
        made == LetEnvAfter(fun.bindings, Len(fun.bindings), fun.mode)
    IN  /\ fun.body.op = "counter"
        /\ LetHas(made, "count")
        /\ ~callable(made.d["count"])

QsCount(l, e) == Cardinality({i \in 1..Len(l) : l[i] = e})

\* C16: quicksort(L) returns a list object other than L whose elements are those
\* of L, each as many times as in L, in non-decreasing order, and L holds the
\* elements it held when quicksort was called; the empty list and lists with
\* repeated elements included.
C16_QuicksortSorts ==
    qsPc = "done" =>
        /\ qsRet # 1
        /\ Len(qsHeap[qsRet]) = Len(qsIn)
        /\ \A e \in 0..MaxQsInt : QsCount(qsHeap[qsRet], e) = QsCount(qsIn, e)
        /\ \A i \in 1..(Len(qsHeap[qsRet]) - 1) :
               qsHeap[qsRet][i] <= qsHeap[qsRet][i + 1]
        /\ qsHeap[1] = qsIn

\* an unsorted list with a repeated element has been sorted
C16_Witness ==
    /\ qsPc = "done"
    /\ qsIn = <<2, 1, 2, 0>>
    /\ qsHeap[qsRet] = <<0, 1, 2, 2>>
    /\ qsHeap[1] = <<2, 1, 2, 0>>

\* n is a prime number
IsPrime(n) == n >= 2 /\ \A d \in 2..(n - 1) : (n % d) # 0

\* s lists the prime numbers below bound in increasing order, each once, and
\* nothing else
IsPrimesBelow(s, bound) ==
    /\ \A j \in 1..Len(s) : IsPrime(s[j]) /\ s[j] < bound
    /\ \A j \in 1..(Len(s) - 1) : s[j] < s[j + 1]
    /\ \A q \in 2..(bound - 1) : IsPrime(q) => \E j \in 1..Len(s) : s[j] = q

\* the first element of the remaining stream of sicp_primes
SvFirstOfStream == remove_multiples_of(svFilters, Len(svFilters), svI).k

\* what the three generators have yielded is the primes in increasing order
\* from 2 on, each once, with no prime left out and no composite, and at the
\* start of every turn of sicp_primes' loop the first element of the stream is
\* prime
SvYieldPrimes ==
    /\ IsPrimesBelow(svPrimes, IF svF = 0 THEN 2 ELSE 2 * svF + 1)
    /\ IsPrimesBelow(svMemo, IF svMemoF = 0 THEN 2 ELSE 2 * svMemoF + 1)
    /\ IsPrimesBelow(svSicp, svI)
    /\ svFilters = svSicp
    /\ IsPrime(SvFirstOfStream)

\* C17: the three generators yield the same sequence, the primes in increasing
\* order from 2 on, each once and no composite, and none of them ever stops
\* yielding; the first element of the stream of sicp_primes is prime at the
\* start of every turn of its loop.
C17_SameSequence == SvYieldPrimes /\ ~svRaised

\* C17, amended: as above, but sicp_primes yields only as long as the nesting of
\* its generators fits the recursion limit: after k primes the next next()
\* needs k + 2 frames, and it raises when that is more than the limit.
C17_SameUntilRecursionLimit ==
    /\ SvYieldPrimes
    /\ Len(svSicp) + 1 <= RecursionLimit
    /\ svRaised => Len(svSicp) + 2 > RecursionLimit

\* sicp_primes has yielded five primes or more and raised; primes() and
\* memo_primes() yielded the same primes and went on
C17_Witness ==
    /\ svRaised
    /\ Len(svSicp) >= 5
    /\ Len(svPrimes) > Len(svSicp)
    /\ Len(svMemo) > Len(svSicp)
    /\ SubSeq(svPrimes, 1, Len(svSicp)) = svSicp
    /\ SubSeq(svMemo, 1, Len(svSicp)) = svSicp

====
